---- MODULE Spec2Model ----
(***************************************************************************)
(* amp-panel-designer: Panel.from_dict (models.py) builds a typed tree     *)
(* from a nested mapping, PanelRenderer (renderer.py) walks it and appends *)
(* drawing primitives to an svgwrite Drawing, main (main.py) runs the two  *)
(* in sequence and saves the file.                                         *)
(*                                                                         *)
(* Lengths are Python floats in millimetres.  The model keeps them as      *)
(* integers in units of 1/7200 mm, so that every /2, *0.5, *0.35, *0.6,    *)
(* *0.7 and the 12pt default font size (12*25.4/72 mm) are exact for the   *)
(* whole-millimetre inputs used here.                                      *)
(*                                                                         *)
(* An Optional[...] value is <<>> (Python None) or <<v>>.                  *)
(***************************************************************************)
EXTENDS Integers, Sequences, FiniteSets, TLC

VARIABLES
    pc,      \* position of main(): "start", "built", "rendering", "done", "error"
    input,   \* the mapping yaml.safe_load returned (main.py:17)
    panel,   \* the Panel returned by Panel.from_dict, <<>> before/without it
    dwg,     \* the svgwrite Drawing: the sequence of primitives added so far
    stack,   \* the active _render_group calls, innermost last
    err,     \* the exception that ended the run, NoError if none
    file,    \* TRUE once dwg.saveas has written the output file
    calls,   \* history: the elements whose pass of the _render_group loop
             \* has run, in order, each as its path of 1-based child indices
    nd_data,     \* normalize_data: `data`, the mapping passed in, as a
                 \* sequence of (key, value) pairs
    nd_new_data, \* normalize_data: `new_data`, its copy, values replaced as
                 \* the loop goes
    nd_i         \* normalize_data: the pair the loop is at

norm_vars == <<nd_data, nd_new_data, nd_i>>
vars == <<pc, input, panel, dwg, stack, err, file, calls, nd_data, nd_new_data, nd_i>>

----------------------------------------------------------------------------
(* Values *)

mm(n) == n * 7200

None == <<>>
Some(v) == <<v>>
Get(o, default) == IF o = None THEN default ELSE o[1]

\* Python truthiness of an Optional[float]: None and 0.0 are falsy.
Truthy(o) == o # None /\ o[1] # 0

\* value / 2 and value * 0.5 on floats
Half(v) == v \div 2

----------------------------------------------------------------------------
(* Input mappings.  A key that is absent from a mapping is None; a nested  *)
(* mapping carries `given` (the key is present) and its own keys.          *)

NoLabelIn ==
    [kind |-> "none", text |-> None, position |-> None, font |-> None,
     distance |-> None]

\* label: "Volume"
LabelStr(s) == [NoLabelIn EXCEPT !.kind = "str", !.text = Some(s)]

\* label: {text: ..., position: ..., font: {size: ...}, distance: ...}
LabelDict(text, position, font, distance) ==
    [kind |-> "dict", text |-> text, position |-> position, font |-> font,
     distance |-> distance]

NoMountIn ==
    [given |-> FALSE, diameter |-> None, width |-> None, height |-> None,
     extra |-> FALSE]

\* mount: {diameter: d, width: w, height: h} with any of the keys absent;
\* extra: the block holds a key Mount does not know.
MountIn(d, w, h, extra) ==
    [given |-> TRUE, diameter |-> d, width |-> w, height |-> h, extra |-> extra]

NoScaleIn ==
    [given |-> FALSE, num_ticks |-> None, major_tick_interval |-> None,
     tick_style |-> None, tick_size |-> None, position |-> None,
     labels |-> None]

\* scale: {num_ticks: n, major_tick_interval: k, tick_style: ..., tick_size:
\* ..., position: ...}; a `labels` key of the block, when there is one, is
\* set with EXCEPT.
ScaleIn(n, k, style, size, position) ==
    [given |-> TRUE, num_ticks |-> n, major_tick_interval |-> k,
     tick_style |-> style, tick_size |-> size, position |-> position,
     labels |-> None]

NoBorderIn == [given |-> FALSE, type |-> None]

BorderIn(type) == [given |-> TRUE, type |-> type]

\* An element mapping with only id, x, y: every other key absent.
E0 ==
    [id |-> "e", x |-> 0, y |-> 0, type |-> None,
     label |-> NoLabelIn, label_position |-> None, font |-> None,
     mount |-> NoMountIn, install_diameter |-> None,
     mount_width |-> None, mount_height |-> None,
     knob_diameter |-> None, border_diameter |-> None,
     border_thickness |-> None, radius |-> None,
     scale |-> NoScaleIn, scale_labels |-> None,
     switch_type |-> None, width |-> None, height |-> None,
     label_top |-> NoLabelIn, label_center |-> NoLabelIn,
     label_bottom |-> NoLabelIn,
     border |-> NoBorderIn, elements |-> <<>>]

El(type, x, y) == [E0 EXCEPT !.type = Some(type), !.x = x, !.y = y]

----------------------------------------------------------------------------
(* models.py: unit normalisation *)

\* to_mm on an int or float: float(value).  The documents of this model
\* carry numeric dimension values, already in model units.
to_mm(value) == value

\* normalize_data replaces the value of every key in DIMENSION_KEYS by
\* to_mm(value); Norm is its effect on one such key, absent keys stay absent.
Norm(o) == IF o = None THEN None ELSE Some(to_mm(o[1]))

----------------------------------------------------------------------------
(* models.py: the typed tree *)

NoError == [kind |-> "", who |-> ""]
Raise(kind, who) == [kind |-> kind, who |-> who]
Ok(obj) == [err |-> NoError, obj |-> obj]
Fail(e) == [err |-> e, obj |-> None]

\* @dataclass Label: text, position, font.  (No other attribute.)
Label(text, position, font) ==
    [text |-> text, position |-> position, font |-> font]

\* @dataclass Mount
Mount(diameter, width, height) ==
    [diameter |-> diameter, width |-> width, height |-> height]

\* @dataclass Scale: num_ticks, major_tick_interval, tick_style, tick_size,
\* position.  (No other attribute: _filter_args drops a `labels` key of
\* the block.)
Scale(s) ==
    [num_ticks |-> Get(s.num_ticks, 11),
     major_tick_interval |-> Get(s.major_tick_interval, 1),
     tick_style |-> Get(s.tick_style, "line"),
     tick_size |-> Get(Norm(s.tick_size), mm(2)),
     position |-> Get(s.position, "outside")]

\* @dataclass Border (type only; thickness, style and colour are carried
\* to the primitive unchanged and play no part in the geometry)
Border(b) == [type |-> Get(b.type, "none")]

\* A mapping is truthy when it has at least one key.
LabelTruthy(l) ==
    \/ l.kind = "str" /\ l.text # Some("")
    \/ l.kind = "dict" /\ (l.text # None \/ l.position # None
                           \/ l.font # None \/ l.distance # None)
MountTruthy(m) ==
    m.given /\ (m.diameter # None \/ m.width # None \/ m.height # None \/ m.extra)
ScaleTruthy(s) ==
    s.given /\ (s.num_ticks # None \/ s.major_tick_interval # None
                \/ s.tick_style # None \/ s.tick_size # None \/ s.position # None
                \/ s.labels # None)
BorderTruthy(b) == b.given /\ b.type # None

\* Element._parse_label_param: None -> None; str -> Label(text); dict ->
\* Label(text or "", position, font).  A `distance` key of the mapping is
\* never read.
parse_label_param(value) ==
    CASE value.kind = "none" -> None
      [] value.kind = "str"  -> Some(Label(value.text[1], None, None))
      [] value.kind = "dict" ->
            Some(Label(Get(value.text, ""), value.position, Norm(value.font)))

\* Component.__post_init__: the mount check.  "" when it passes, or the
\* ValueError it raises.
Component_post_init(id, mount) ==
    IF mount # None
    THEN IF mount[1].diameter # None
         THEN IF mount[1].width # None \/ mount[1].height # None
              THEN Raise("MountInvariant", id)
              ELSE NoError
         ELSE IF mount[1].width = None \/ mount[1].height = None
              THEN Raise("MountInvariant", id)
              ELSE NoError
    ELSE NoError

\* Component._parse_mount
parse_mount(data, default_diameter) ==
    IF MountTruthy(data.mount)
    THEN Some(Mount(Norm(data.mount.diameter), Norm(data.mount.width),
                    Norm(data.mount.height)))
    ELSE IF data.install_diameter # None
    THEN Some(Mount(Norm(data.install_diameter), None, None))
    ELSE IF data.mount_width # None /\ data.mount_height # None
    THEN Some(Mount(None, Norm(data.mount_width), Norm(data.mount_height)))
    ELSE IF default_diameter # None
    THEN Some(Mount(default_diameter, None, None))
    ELSE None

\* The mount the dataclass constructor receives from from_dict: _parse_mount
\* has popped 'mount' from data before the constructor runs, so the
\* constructor (and with it __post_init__) sees the field's default, None;
\* the parsed mount is assigned to the object afterwards.
CtorMount(mount) == None

\* Potentiometer.from_dict
Potentiometer_from_dict(data) ==
    LET knob == IF data.radius # None /\ data.knob_diameter = None
                THEN Some(to_mm(data.radius[1]) * 2)
                ELSE Norm(data.knob_diameter)
        mount == parse_mount(data, Some(mm(6)))
        chk == Component_post_init(data.id, CtorMount(mount))
    IN IF chk # NoError THEN Fail(chk)
       ELSE Ok([cls |-> "Potentiometer", id |-> data.id,
                x |-> to_mm(data.x), y |-> to_mm(data.y),
                type |-> data.type[1], label |-> None, font_style |-> None,
                mount |-> mount,
                knob_diameter |-> Get(knob, mm(20)),
                border_diameter |-> Get(Norm(data.border_diameter), mm(25)),
                border_thickness |-> Get(Norm(data.border_thickness), 0),
                angle_start |-> 45, angle_width |-> 270,
                scale |-> IF ScaleTruthy(data.scale)
                          THEN Some(Scale(data.scale)) ELSE None])

\* Socket.from_dict
Socket_from_dict(data) ==
    LET mount == parse_mount(data, Some(mm(10)))
        chk == Component_post_init(data.id, CtorMount(mount))
    IN IF chk # NoError THEN Fail(chk)
       ELSE Ok([cls |-> "Socket", id |-> data.id,
                x |-> to_mm(data.x), y |-> to_mm(data.y),
                type |-> data.type[1], label |-> None, font_style |-> None,
                mount |-> mount,
                radius |-> Get(Norm(data.radius), mm(10))])

\* Switch.from_dict
Switch_from_dict(data) ==
    LET lt == parse_label_param(data.label_top)
        lc == parse_label_param(data.label_center)
        lb == parse_label_param(data.label_bottom)
        mount == parse_mount(data, Some(mm(5)))
        chk == Component_post_init(data.id, CtorMount(mount))
    IN IF chk # NoError THEN Fail(chk)
       ELSE Ok([cls |-> "Switch", id |-> data.id,
                x |-> to_mm(data.x), y |-> to_mm(data.y),
                type |-> data.type[1], label |-> None, font_style |-> None,
                mount |-> mount,
                switch_type |-> Get(data.switch_type, "toggle"),
                width |-> Get(Norm(data.width), mm(10)),
                height |-> Get(Norm(data.height), mm(20)),
                knob_diameter |-> Get(Norm(data.knob_diameter), mm(20)),
                label_top |-> lt, label_center |-> lc, label_bottom |-> lb,
                angle_start |-> 45, angle_width |-> 270,
                scale |-> IF ScaleTruthy(data.scale)
                          THEN Some(Scale(data.scale)) ELSE None,
                scale_labels |-> Get(data.scale_labels, <<>>)])

RECURSIVE Element_from_dict(_), from_dict_each(_)

RECURSIVE from_dict_each_skip(_)

\* from_dict_each with a child that raises dropped instead of ending the build
from_dict_each_skip(elements_data) ==
    IF elements_data = <<>> THEN Ok(<<>>)
    ELSE LET h == Element_from_dict(Head(elements_data))
             t == from_dict_each_skip(Tail(elements_data))
         IN IF h.err # NoError THEN t ELSE Ok(<<h.obj>> \o t.obj)

\* `for el_data in elements_data: ....append(Element.from_dict(el_data))`:
\* the children in order, the first exception ends the loop.
from_dict_each(elements_data) ==
    IF elements_data = <<>> THEN Ok(<<>>)
    ELSE LET h == Element_from_dict(Head(elements_data))
         IN IF h.err # NoError THEN h
            ELSE LET t == from_dict_each(Tail(elements_data))
                 IN IF t.err # NoError THEN t
                    ELSE Ok(<<h.obj>> \o t.obj)

\* Group.from_dict
Group_from_dict(data) ==
    LET kids == from_dict_each(data.elements)
    IN IF kids.err # NoError THEN kids
       ELSE Ok([cls |-> "Group", id |-> data.id,
                x |-> to_mm(data.x), y |-> to_mm(data.y),
                type |-> data.type[1], label |-> None, font_style |-> None,
                elements |-> kids.obj,
                width |-> Norm(data.width), height |-> Norm(data.height),
                border |-> IF BorderTruthy(data.border)
                           THEN Some(Border(data.border)) ELSE None])

\* The type dispatch of Element.from_dict (models.py:97-107).
Dispatch(data) ==
    CASE data.type = Some("group")         -> Group_from_dict(data)
      [] data.type = Some("potentiometer") -> Potentiometer_from_dict(data)
      [] data.type = Some("socket")        -> Socket_from_dict(data)
      [] data.type = Some("switch")        -> Switch_from_dict(data)
      [] OTHER -> Fail(Raise("UnknownElementType", data.id))

\* The main label of Element.from_dict (models.py:115-121).
MainLabel(data) ==
    IF LabelTruthy(data.label)
    THEN LET parsed == parse_label_param(data.label)[1]
         IN Some(IF parsed.position = None /\ data.label_position # None
                 THEN [parsed EXCEPT !.position = data.label_position]
                 ELSE parsed)
    ELSE None

\* Element.from_dict
Element_from_dict(data) ==
    LET r == Dispatch(data)
    IN IF r.err # NoError THEN r
       ELSE Ok([r.obj EXCEPT !.font_style = Norm(data.font),
                             !.label = MainLabel(data)])

\* Panel.from_dict
Panel_from_dict(data) ==
    LET kids == from_dict_each(data.elements)
    IN IF kids.err # NoError THEN kids
       ELSE Ok([name |-> data.name, width |-> to_mm(data.width),
                height |-> to_mm(data.height),
                elements |-> kids.obj,
                render_mode |-> Get(data.render_mode, "both")])

----------------------------------------------------------------------------
(* renderer.py: primitives.                                                *)
(*   line:   (x1, y1) -> (x2, y2)                                          *)
(*   rect:   insert (x1, y1), size (x2, y2)                                *)
(*   circle: centre (x1, y1), r = x2                                       *)
(*   text:   insert (x1, y1), with text and anchor                         *)
(* A scale tick is kept in polar form about the component centre (x1, y1): *)
(* ang is angle_svg_deg (1/7200 degree), x2 and y2 are r_start and r_end   *)
(* of a line tick, r_center and r_dot of a dot tick.                       *)
(* opacity is in percent (100 when the call passes none).  tag names the   *)
(* statement that added the primitive and owner the element it was added   *)
(* for, as the path of 1-based child indices from the panel; neither is    *)
(* part of the drawing.                                                    *)

P0 ==
    [shape |-> "", tag |-> "", owner |-> <<>>, x1 |-> 0, y1 |-> 0, x2 |-> 0,
     y2 |-> 0, fill |-> "", opacity |-> 100, text |-> "", anchor |-> "",
     ang |-> 0, idx |-> 0, major |-> FALSE]

line(tag, owner, x1, y1, x2, y2, opacity) ==
    [P0 EXCEPT !.shape = "line", !.tag = tag, !.owner = owner, !.x1 = x1,
               !.y1 = y1, !.x2 = x2, !.y2 = y2, !.opacity = opacity]

rect(tag, owner, x, y, w, h, fill, opacity) ==
    [P0 EXCEPT !.shape = "rect", !.tag = tag, !.owner = owner, !.x1 = x,
               !.y1 = y, !.x2 = w, !.y2 = h, !.fill = fill,
               !.opacity = opacity]

circle(tag, owner, x, y, r, fill, opacity) ==
    [P0 EXCEPT !.shape = "circle", !.tag = tag, !.owner = owner, !.x1 = x,
               !.y1 = y, !.x2 = r, !.fill = fill, !.opacity = opacity]

\* _render_text
render_text(tag, owner, text, x, y, anchor) ==
    [P0 EXCEPT !.shape = "text", !.tag = tag, !.owner = owner, !.x1 = x,
               !.y1 = y, !.text = text, !.anchor = anchor]

\* What a render routine did: the primitives it added, in order, and the
\* exception that ended it (NoError when it returned).
Drawn(prims) == [prims |-> prims, err |-> NoError]
Threw(prims, kind, who) == [prims |-> prims, err |-> Raise(kind, who)]

\* Run b after a, unless a raised.
Then(a, b) ==
    IF a.err # NoError THEN a
    ELSE [prims |-> a.prims \o b.prims, err |-> b.err]

----------------------------------------------------------------------------
(* renderer.py: render mode *)

\* the glyph drawn in every mode
should_show_component_always(mode) == TRUE

should_show_component(mode) == mode \in {"show", "both"}
should_show_drill(mode) == mode \in {"hide", "both"}
is_both_mode(mode) == mode = "both"
component_opacity(mode) == IF is_both_mode(mode) THEN 50 ELSE 100

----------------------------------------------------------------------------
(* renderer.py: _render_drill_pattern(x, y, mount=component) *)

render_drill_pattern(x, y, comp, owner) ==
    LET has == comp.mount # None
        m == comp.mount[1]
        byDiameter == has /\ Truthy(m.diameter)
        byRect == has /\ ~byDiameter /\ Truthy(m.width) /\ Truthy(m.height)
    IN IF byRect
       THEN LET w == m.width[1]
                h == m.height[1]
                cross_len_h == Half(w) + mm(3)
                cross_len_v == Half(h) + mm(3)
            IN << rect("drill_rect", owner, x - Half(w), y - Half(h), w, h,
                       "none", 100),
                  line("drill_h", owner, x - cross_len_h, y, x + cross_len_h,
                       y, 100),
                  line("drill_v", owner, x, y - cross_len_v, x,
                       y + cross_len_v, 100) >>
       ELSE IF byDiameter
       THEN LET r == Half(m.diameter[1])
                cross_len == r + mm(3)
            IN << circle("drill_circle", owner, x, y, r, "none", 100),
                  line("drill_h", owner, x - cross_len, y, x + cross_len, y,
                       100),
                  line("drill_v", owner, x, y - cross_len, x, y + cross_len,
                       100) >>
       ELSE <<>>

----------------------------------------------------------------------------
(* renderer.py: fonts and component labels *)

deg(n) == n * 7200

\* 12 * 25.4 / 72.0
default_font_mm == (12 * 182880) \div 72

\* value * 0.7 and value * 0.35
Times07(v) == (v * 7) \div 10
Times035(v) == (v * 7) \div 20

\* _get_element_font: element.label.font, else element.font_style
get_element_font(element) ==
    IF element.label # None /\ element.label[1].font # None
    THEN element.label[1].font
    ELSE element.font_style

\* _get_font_size_mm on a FontStyle whose size is a float or None
get_font_size_mm(font_style) ==
    IF ~Truthy(font_style) THEN default_font_mm ELSE font_style[1]

\* _parse_position: pos.split('-'); a descriptor is kept as its parts.
parse_position(pos) ==
    IF pos = None THEN [side |-> "bottom", mode |-> "outside"]
    ELSE [side |-> pos[1],
          mode |-> IF Len(pos) > 1 THEN pos[2] ELSE "outside"]

\* The attributes of an object (hasattr / AttributeError).
HasAttr(obj, name) == name \in DOMAIN obj

\* _render_component_label
render_component_label(element, x, y, default_dist, owner) ==
    IF element.label # None /\ element.label[1].text # ""
    THEN LET lbl == element.label[1]
             raw_pos == IF lbl.position # None THEN lbl.position
                        ELSE <<"bottom", "outside">>
             p == parse_position(raw_pos)
             font_size == get_font_size_mm(get_element_font(element))
         IN IF ~HasAttr(lbl, "distance")
            THEN Threw(<<>>, "AttributeError", element.id)
            ELSE
            LET dist == IF lbl.distance # None THEN lbl.distance[1]
                        ELSE default_dist
                lx == CASE p.side = "left" -> x - dist
                        [] p.side = "right" -> x + dist
                        [] OTHER -> x
                ly == CASE p.side = "top" -> y - dist
                        [] p.side = "bottom" -> y + dist + Times07(font_size)
                        [] p.side \in {"left", "right", "center"} ->
                              y + Times035(font_size)
                        [] OTHER -> y
                anchor ==
                    CASE p.side = "left" ->
                            (CASE p.mode = "inside" -> "start"
                               [] p.mode = "inline" -> "middle"
                               [] OTHER -> "end")
                      [] p.side = "right" ->
                            (CASE p.mode = "inside" -> "end"
                               [] p.mode = "inline" -> "middle"
                               [] OTHER -> "start")
                      [] OTHER -> "middle"
            IN Drawn(<<render_text("label", owner, lbl.text, lx, ly, anchor)>>)
    ELSE Drawn(<<>>)

----------------------------------------------------------------------------
(* renderer.py: scale ticks *)

\* is_major = (i % s.major_tick_interval == 0) if s.major_tick_interval > 0
\*            else True
is_major(s, i) ==
    IF s.major_tick_interval > 0 THEN i % s.major_tick_interval = 0 ELSE TRUE

\* current_tick_len
tick_len(s, i) == IF is_major(s, i) THEN s.tick_size ELSE Half(s.tick_size)

\* r_dot = (current_tick_len / 2) if is_major else (current_tick_len * 0.5 / 2)
dot_radius(s, i) ==
    IF is_major(s, i) THEN Half(tick_len(s, i))
    ELSE Half(Half(tick_len(s, i)))

\* step = sweep / (num_ticks - 1) if num_ticks > 1 else 0
tick_step(s, sweep) ==
    IF s.num_ticks > 1 THEN sweep \div (s.num_ticks - 1) ELSE 0

\* angle_svg_deg of tick i
tick_angle(s, start, sweep, i) == start + i * tick_step(s, sweep) + deg(90)

polar(shape, owner, x, y, ang, a, b, i, major) ==
    [P0 EXCEPT !.shape = shape, !.tag = "tick", !.owner = owner, !.x1 = x,
               !.y1 = y, !.ang = ang, !.x2 = a, !.y2 = b, !.idx = i,
               !.major = major, !.fill = IF shape = "circle" THEN "black" ELSE ""]

\* One pass of the potentiometer's tick loop (renderer.py:472-517).
pot_tick(pot, x, y, owner, i) ==
    LET s == pot.scale[1]
        border_r == Half(pot.border_diameter)
        base_radius == IF pot.border_diameter > pot.knob_diameter
                       THEN Half(pot.border_diameter)
                       ELSE Half(pot.knob_diameter)
        tick_r_start == CASE s.position = "outside" -> border_r + mm(1)
                          [] s.position = "inside" -> border_r - mm(1)
                          [] OTHER -> base_radius + mm(1)
        len == tick_len(s, i)
        r_start == IF s.position = "inline" THEN border_r - Half(len)
                   ELSE tick_r_start
        r_end == CASE s.position = "inside" -> r_start - len
                   [] s.position = "inline" -> border_r + Half(len)
                   [] OTHER -> r_start + len
        r_dot == dot_radius(s, i)
        r_center == CASE s.position = "inside" -> r_start - r_dot
                      [] s.position = "inline" -> border_r
                      [] OTHER -> r_start + r_dot
        ang == tick_angle(s, deg(pot.angle_start), deg(pot.angle_width), i)
    IN IF s.tick_style = "dot"
       THEN polar("circle", owner, x, y, ang, r_center, r_dot, i, is_major(s, i))
       ELSE polar("line", owner, x, y, ang, r_start, r_end, i, is_major(s, i))

pot_ticks(pot, x, y, owner) ==
    IF pot.scale # None /\ pot.scale[1].num_ticks > 0
    THEN [j \in 1 .. pot.scale[1].num_ticks |-> pot_tick(pot, x, y, owner, j - 1)]
    ELSE <<>>

----------------------------------------------------------------------------
(* renderer.py: the component renderers *)

Max(a, b) == IF a > b THEN a ELSE b
Min(a, b) == IF a < b THEN a ELSE b

\* The drill pattern, when the render mode asks for it.
drill_if_shown(comp, x, y, mode, owner) ==
    IF should_show_drill(mode) THEN render_drill_pattern(x, y, comp, owner)
    ELSE <<>>

\* The knob circle and its marker (potentiometer and rotary switch).
knob_glyph(x, y, knob_radius, mode, owner) ==
    << circle("knob", owner, x, y, knob_radius, "white",
              component_opacity(mode)),
       line("knob_marker", owner, x, y, x, y - knob_radius + mm(2),
            component_opacity(mode)) >>

\* The border ring of a potentiometer (renderer.py:441-444).
border_ring(pot, x, y, owner) ==
    IF pot.border_thickness > 0
    THEN <<circle("border_ring", owner, x, y, Half(pot.border_diameter),
                  "none", 100)>>
    ELSE <<>>

\* default_dist of a potentiometer (renderer.py:525-528)
pot_default_dist(pot) ==
    LET outer_radius == Half(pot.border_diameter)
                        + (IF pot.scale # None
                           THEN pot.scale[1].tick_size + mm(2) ELSE 0)
    IN Max(outer_radius, Half(pot.knob_diameter)) + mm(2)

\* _render_potentiometer
render_potentiometer(pot, x, y, mode, owner) ==
    Then(Drawn(drill_if_shown(pot, x, y, mode, owner)
               \o border_ring(pot, x, y, owner)
               \o pot_ticks(pot, x, y, owner)
               \o (IF should_show_component(mode)
                   THEN knob_glyph(x, y, Half(pot.knob_diameter), mode, owner)
                   ELSE <<>>)),
         render_component_label(pot, x, y, pot_default_dist(pot), owner))

\* _render_socket
render_socket(socket, x, y, mode, owner) ==
    Then(Drawn(drill_if_shown(socket, x, y, mode, owner)
               \o (IF should_show_component(mode)
                   THEN << circle("socket_body", owner, x, y, socket.radius,
                                  "#333333", component_opacity(mode)),
                           circle("socket_bore", owner, x, y,
                                  Half(socket.radius), "black",
                                  component_opacity(mode)) >>
                   ELSE <<>>)),
         render_component_label(socket, x, y, socket.radius + mm(5), owner))

\* One of the three labels of a toggle switch (renderer.py:558-579):
\* which is "top", "bottom" or "center".
toggle_label(switch, which, x, y, owner) ==
    LET l == CASE which = "top" -> switch.label_top
               [] which = "bottom" -> switch.label_bottom
               [] which = "center" -> switch.label_center
    IN IF l = None THEN Drawn(<<>>)
       ELSE IF ~HasAttr(l[1], "distance")
       THEN Threw(<<>>, "AttributeError", switch.id)
       ELSE
       LET font == IF l[1].font # None THEN l[1].font
                   ELSE get_element_font(switch)
           f_size == get_font_size_mm(font)
           dflt == IF which = "center" THEN Half(switch.width) + mm(8)
                   ELSE Half(switch.height) + mm(5)
           dist == IF l[1].distance # None THEN l[1].distance[1] ELSE dflt
       IN Drawn(<<CASE which = "top" ->
                         render_text("label_top", owner, l[1].text, x,
                                     y - dist, "middle")
                    [] which = "bottom" ->
                         render_text("label_bottom", owner, l[1].text, x,
                                     y + dist + Times07(f_size), "middle")
                    [] which = "center" ->
                         render_text("label_center", owner, l[1].text,
                                     x + dist, y + Times035(f_size),
                                     "middle")>>)

\* One pass of the rotary switch's tick loop (renderer.py:598-634): the
\* tick, then its label when the scale's label list reaches it.
rotary_pass(switch, x, y, owner, i) ==
    LET s == switch.scale[1]
        tick_r_start == Half(switch.knob_diameter) + mm(1)
        len == tick_len(s, i)
        r_dot == dot_radius(s, i)
        ang == tick_angle(s, deg(switch.angle_start),
                          deg(switch.angle_width), i)
        tick == IF s.tick_style = "dot"
                THEN polar("circle", owner, x, y, ang, tick_r_start + r_dot,
                           r_dot, i, is_major(s, i))
                ELSE polar("line", owner, x, y, ang, tick_r_start,
                           tick_r_start + len, i, is_major(s, i))
        label_anchor_radius == IF s.tick_style = "dot"
                               THEN tick_r_start + r_dot * 2 + mm(2)
                               ELSE tick_r_start + len + mm(3)
    IN IF ~HasAttr(s, "labels")
       THEN Threw(<<tick>>, "AttributeError", switch.id)
       ELSE IF i < Len(s.labels)
       THEN Drawn(<<tick,
                    [P0 EXCEPT !.shape = "text", !.tag = "tick_label",
                               !.owner = owner, !.x1 = x, !.y1 = y,
                               !.ang = ang, !.x2 = label_anchor_radius,
                               !.idx = i, !.text = s.labels[i + 1].text,
                               !.anchor = "middle"]>>)
       ELSE Drawn(<<tick>>)

RECURSIVE rotary_loop(_, _, _, _, _)

\* for i in range(s.num_ticks), from pass i on
rotary_loop(switch, x, y, owner, i) ==
    IF i >= switch.scale[1].num_ticks THEN Drawn(<<>>)
    ELSE Then(rotary_pass(switch, x, y, owner, i),
              rotary_loop(switch, x, y, owner, i + 1))

\* The glyph of a switch (renderer.py:636-647)
switch_glyph(switch, x, y, mode, owner) ==
    IF ~should_show_component(mode) THEN <<>>
    ELSE IF switch.switch_type = "rotary"
    THEN knob_glyph(x, y, Half(switch.knob_diameter), mode, owner)
    ELSE << rect("toggle_body", owner, x - Half(switch.width),
                 y - Half(switch.height), switch.width, switch.height,
                 "#cccccc", component_opacity(mode)),
            circle("toggle_lever", owner, x, y, Half(switch.width) - mm(2),
                   "black", component_opacity(mode)) >>

\* dist of a switch's main label (renderer.py:651-658)
switch_default_dist(switch) ==
    IF switch.switch_type = "rotary"
    THEN Half(switch.knob_diameter) + mm(5)
         + (IF switch.scale # None THEN switch.scale[1].tick_size + mm(5)
            ELSE 0)
    ELSE Half(switch.height) + mm(10)

\* _render_switch
render_switch(switch, x, y, mode, owner) ==
    Then(Drawn(drill_if_shown(switch, x, y, mode, owner)),
    Then(IF switch.switch_type = "toggle"
         THEN Then(toggle_label(switch, "top", x, y, owner),
              Then(toggle_label(switch, "bottom", x, y, owner),
                   toggle_label(switch, "center", x, y, owner)))
         ELSE Drawn(<<>>),
    Then(IF switch.switch_type = "rotary" /\ switch.scale # None
         THEN rotary_loop(switch, x, y, owner, 0)
         ELSE Drawn(<<>>),
    Then(Drawn(switch_glyph(switch, x, y, mode, owner)),
         render_component_label(switch, x, y, switch_default_dist(switch),
                                owner)))))

\* _render_custom.  models.py defines no Custom class, so Element.from_dict
\* never returns one; the routine is what renderer.py does with a Component
\* that carries only the optional mount.
render_custom(custom, x, y, mode, owner) ==
    LET op == component_opacity(mode)
        m == custom.mount[1]
        glyph ==
            IF ~should_show_component(mode) \/ custom.mount = None THEN <<>>
            ELSE IF Truthy(m.diameter)
            THEN LET r == Half(m.diameter[1])
                     cross_r == Times07(r)
                 IN << circle("custom_body", owner, x, y, r, "#eeeeee", op),
                       line("custom_x", owner, x - cross_r, y - cross_r,
                            x + cross_r, y + cross_r, op),
                       line("custom_x", owner, x + cross_r, y - cross_r,
                            x - cross_r, y + cross_r, op) >>
            ELSE IF Truthy(m.width) /\ Truthy(m.height)
            THEN LET w == m.width[1]
                     h == m.height[1]
                 IN << rect("custom_body", owner, x - Half(w), y - Half(h),
                            w, h, "#eeeeee", op),
                       line("custom_x", owner, x - Half(w), y - Half(h),
                            x + Half(w), y + Half(h), op),
                       line("custom_x", owner, x + Half(w), y - Half(h),
                            x - Half(w), y + Half(h), op) >>
            ELSE <<>>
        dist == IF custom.mount = None THEN mm(10)
                ELSE IF Truthy(m.diameter) THEN Half(m.diameter[1]) + mm(5)
                ELSE IF Truthy(m.height) THEN Half(m.height[1]) + mm(5)
                ELSE mm(10)
    IN Then(Drawn(drill_if_shown(custom, x, y, mode, owner) \o glyph),
            render_component_label(custom, x, y, dist, owner))

\* The isinstance chain of _render_group for a non-group element
\* (renderer.py:236-246); an element of no known class draws nothing.
render_component(element, x, y, mode, owner) ==
    CASE element.cls = "Potentiometer" ->
            render_potentiometer(element, x, y, mode, owner)
      [] element.cls = "Socket" -> render_socket(element, x, y, mode, owner)
      [] element.cls = "Switch" -> render_switch(element, x, y, mode, owner)
      [] element.cls = "Custom" -> render_custom(element, x, y, mode, owner)
      [] OTHER -> Drawn(<<>>)

----------------------------------------------------------------------------
(* renderer.py: groups *)

\* _get_text_width with a factor of 1 for 0.6
get_text_width_wide(text, font_size) == Len(text) * font_size

\* _get_text_width: len(text) * font_size * 0.6
get_text_width(text, font_size) == (Len(text) * font_size * 3) \div 5

\* `v / 2 if v else 0` and `v if v else 0` on an Optional[float]
HalfOrZero(o) == IF Truthy(o) THEN Half(o[1]) ELSE 0
ValueOrZero(o) == IF Truthy(o) THEN o[1] ELSE 0

\* The group label of _render_group (renderer.py:126-231): the text
\* primitive, and the gap an inline label leaves for the border
\* (label_gap, label_gap_side; None when there is none).
group_label(element, abs_x, abs_y, owner) ==
    IF element.label # None /\ element.label[1].text # ""
    THEN
    LET lbl == element.label[1]
        font_style == get_element_font(element)
        size_val == IF Truthy(font_style) THEN font_style[1]
                    ELSE default_font_mm
        raw_pos == IF lbl.position # None THEN lbl.position
                   ELSE <<"top", "outside">>
        p == parse_position(raw_pos)
        side == p.side
        mode == p.mode
        text_width == get_text_width(lbl.text, size_val)
        mid_x == abs_x + HalfOrZero(element.width)
        mid_y == abs_y + HalfOrZero(element.height) + Times035(size_val)
        base_y == abs_y + ValueOrZero(element.height)
        base_x == abs_x + ValueOrZero(element.width)
        label_x ==
            CASE side \in {"center", "top", "bottom"} -> mid_x
              [] side = "left" ->
                    (CASE mode = "inline" -> abs_x
                       [] mode = "inside" -> abs_x + mm(5)
                       [] OTHER -> abs_x - mm(5))
              [] side = "right" ->
                    (CASE mode = "inline" -> base_x
                       [] mode = "inside" -> base_x - mm(5)
                       [] OTHER -> base_x + mm(5))
              [] OTHER -> abs_x
        label_y ==
            CASE side \in {"center", "left", "right"} -> mid_y
              [] side = "top" ->
                    (CASE mode = "inline" -> abs_y + Times035(size_val)
                       [] mode = "inside" -> abs_y + size_val + mm(2)
                       [] OTHER -> abs_y - mm(5))
              [] side = "bottom" ->
                    (CASE mode = "inline" -> base_y + Times035(size_val)
                       [] mode = "inside" -> base_y - mm(5)
                       [] OTHER -> base_y + size_val + mm(2))
              [] OTHER -> abs_y
        anchor ==
            CASE side = "left" ->
                    (CASE mode = "inline" -> "middle"
                       [] mode = "inside" -> "start"
                       [] OTHER -> "end")
              [] side = "right" ->
                    (CASE mode = "inline" -> "middle"
                       [] mode = "inside" -> "end"
                       [] OTHER -> "start")
              [] OTHER -> "middle"
        gapped == mode = "inline" /\ side \in {"top", "bottom", "left", "right"}
        label_gap ==
            IF ~gapped THEN None
            ELSE IF side \in {"top", "bottom"}
            THEN << label_x - Half(text_width) - mm(2),
                    label_x + Half(text_width) + mm(2) >>
            ELSE << label_y - Half(size_val) - mm(2),
                    label_y + Half(size_val) + mm(2) >>
    IN [prims |-> <<render_text("group_label", owner, lbl.text, label_x,
                                label_y, anchor)>>,
        label_gap |-> label_gap,
        label_gap_side |-> IF gapped THEN side ELSE ""]
    ELSE [prims |-> <<>>, label_gap |-> None, label_gap_side |-> ""]

\* draw_line_with_gap (renderer.py:271-296)
\* draw_line_with_gap without the two length tests: both segments always
draw_line_with_gap_unguarded(tag, owner, x1, y1, x2, y2, gap, is_vertical) ==
    IF gap = None THEN <<line(tag, owner, x1, y1, x2, y2, 100)>>
    ELSE IF is_vertical
    THEN <<line(tag, owner, x1, Min(y1, y2), x1, gap[1], 100),
           line(tag, owner, x1, gap[2], x1, Max(y1, y2), 100)>>
    ELSE <<line(tag, owner, Min(x1, x2), y1, gap[1], y1, 100),
           line(tag, owner, gap[2], y1, Max(x1, x2), y1, 100)>>

draw_line_with_gap(tag, owner, x1, y1, x2, y2, gap, is_vertical) ==
    IF gap = None THEN <<line(tag, owner, x1, y1, x2, y2, 100)>>
    ELSE
    LET gap_start == gap[1]
        gap_end == gap[2]
    IN IF is_vertical
       THEN LET start_coord == Min(y1, y2)
                end_coord == Max(y1, y2)
            IN (IF gap_start > start_coord
                THEN <<line(tag, owner, x1, start_coord, x1, gap_start, 100)>>
                ELSE <<>>)
               \o (IF gap_end < end_coord
                   THEN <<line(tag, owner, x1, gap_end, x1, end_coord, 100)>>
                   ELSE <<>>)
       ELSE LET start_coord == Min(x1, x2)
                end_coord == Max(x1, x2)
            IN (IF gap_start > start_coord
                THEN <<line(tag, owner, start_coord, y1, gap_start, y1, 100)>>
                ELSE <<>>)
               \o (IF gap_end < end_coord
                   THEN <<line(tag, owner, gap_end, y1, end_coord, y1, 100)>>
                   ELSE <<>>)

\* One edge of the border (renderer.py:300-327): with the gap when the
\* inline label sits on this side, whole otherwise.
border_edge(side, owner, x1, y1, x2, y2, label_gap, label_gap_side, is_vertical) ==
    IF label_gap_side = side
    THEN draw_line_with_gap(side, owner, x1, y1, x2, y2, label_gap, is_vertical)
    ELSE <<line(side, owner, x1, y1, x2, y2, 100)>>

\* edge_types with the single-edge types drawing the opposite edge too
edge_types_both(side) ==
    CASE side \in {"border_top", "border_bottom"} -> {"full", "top", "bottom"}
      [] side \in {"border_left", "border_right"} -> {"full"}

\* Which border types draw which edge (renderer.py:300, 307, 316).
edge_types(side) ==
    CASE side = "border_top" -> {"full", "top"}
      [] side = "border_bottom" -> {"full", "bottom"}
      [] side \in {"border_left", "border_right"} -> {"full"}

\* has_size without the check: a missing dimension counts as 0
has_size_unchecked(group) == TRUE

\* `if not group.width or not group.height: return` (renderer.py:252-253)
has_size(group) == Truthy(group.width) /\ Truthy(group.height)

\* _render_border
render_border(group, x, y, label_gap, label_gap_side, owner) ==
    IF group.border = None \/ group.border[1].type = "none" THEN <<>>
    ELSE IF ~has_size(group) THEN <<>>
    ELSE
    LET b == group.border[1]
        w == ValueOrZero(group.width)     \* group.width, set and non-zero here
        h == ValueOrZero(group.height)    \* group.height, likewise
        gs == IF label_gap_side = "" THEN "" 
              ELSE CASE label_gap_side = "top" -> "border_top"
                     [] label_gap_side = "bottom" -> "border_bottom"
                     [] label_gap_side = "left" -> "border_left"
                     [] label_gap_side = "right" -> "border_right"
    IN (IF b.type \in edge_types("border_top")
        THEN border_edge("border_top", owner, x, y, x + w, y, label_gap, gs,
                         FALSE)
        ELSE <<>>)
       \o (IF b.type \in edge_types("border_bottom")
           THEN border_edge("border_bottom", owner, x, y + h, x + w, y + h,
                            label_gap, gs, FALSE)
           ELSE <<>>)
       \o (IF b.type \in edge_types("border_left")
           THEN border_edge("border_left", owner, x, y, x, y + h, label_gap,
                            gs, TRUE)
           ELSE <<>>)
       \o (IF b.type \in edge_types("border_right")
           THEN border_edge("border_right", owner, x + w, y, x + w, y + h,
                            label_gap, gs, TRUE)
           ELSE <<>>)

\* abs_pos without the enclosing groups' offset
abs_pos_local(offset, element) == [x |-> element.x, y |-> element.y]

\* abs_x = offset_x + element.x, abs_y = offset_y + element.y
\* (renderer.py:122-123)
abs_pos(offset, element) ==
    [x |-> offset.x + element.x, y |-> offset.y + element.y]

\* The group branch of _render_group up to the recursive call
\* (renderer.py:125-233): the label, then the border.
render_group_own(element, abs_x, abs_y, owner) ==
    LET l == group_label(element, abs_x, abs_y, owner)
    IN l.prims \o render_border(element, abs_x, abs_y, l.label_gap,
                                l.label_gap_side, owner)

----------------------------------------------------------------------------
(* The documents main() is run on. *)

MaxCoord == 2    \* element offsets are 0 .. MaxCoord steps of 5 mm / 2 mm
MaxDim == 2      \* mount dimensions are 0 .. MaxDim steps of 4 mm
MaxTicks == 3    \* num_ticks is 0 .. MaxTicks

Modes == {"show", "hide", "both"}

Doc(mode, elements) ==
    [name |-> "panel", width |-> mm(100), height |-> mm(60),
     render_mode |-> mode, elements |-> elements]

Offsets == {[x |-> mm(5 * a), y |-> mm(2 * b)] : a, b \in 0 .. MaxCoord}
Dims == {mm(4 * k) : k \in 0 .. MaxDim}

At(e, o) == [e EXCEPT !.x = o.x, !.y = o.y]

ComponentTypes == {"potentiometer", "socket", "switch"}

\* mount blocks: absent, empty, and every choice of keys
MountBlocks ==
    {NoMountIn, MountIn(None, None, None, FALSE), MountIn(None, None, None, TRUE)}
    \cup {MountIn(Some(d), None, None, FALSE) : d \in Dims}
    \cup {MountIn(None, Some(mm(8)), Some(d), FALSE) : d \in Dims}
    \cup {MountIn(Some(mm(4)), Some(mm(8)), None, FALSE),
          MountIn(Some(mm(4)), None, Some(mm(8)), FALSE),
          MountIn(None, Some(mm(8)), None, FALSE),
          MountIn(None, None, Some(mm(8)), FALSE)}

\* the legacy flat fields: install_diameter, mount_width, mount_height
Legacy ==
    {[install_diameter |-> i, mount_width |-> w, mount_height |-> h] :
        i \in {None, Some(mm(7))}, w \in {None, Some(mm(12))},
        h \in {None, Some(mm(9))}}

\* one component of each type, with every mount block and legacy choice
MountElements ==
    {[El(t, mm(20), mm(30)) EXCEPT !.mount = m,
                                   !.install_diameter = l.install_diameter,
                                   !.mount_width = l.mount_width,
                                   !.mount_height = l.mount_height] :
        t \in ComponentTypes \cup {"custom"}, m \in MountBlocks, l \in Legacy}

Scales ==
    {NoScaleIn}
    \cup {ScaleIn(Some(n), Some(2), None, None, None) : n \in 0 .. MaxTicks}
    \cup {ScaleIn(Some(MaxTicks), None, Some("dot"), Some(mm(4)), Some(p)) :
             p \in {"outside", "inside", "inline"}}
    \cup {ScaleIn(Some(MaxTicks), Some(2), Some("dot"), Some(mm(4)), None)}

Labels == {NoLabelIn, LabelStr("Vol"),
           LabelDict(Some("Out"), <<"top", "outside">>, None, Some(mm(3)))}

Potentiometers ==
    {[El("potentiometer", mm(20), mm(30)) EXCEPT
         !.border_thickness = bt, !.scale = sc, !.label = l] :
        bt \in {None, Some(0), Some(mm(1))}, sc \in Scales, l \in Labels}

Sockets ==
    {[El("socket", mm(20), mm(30)) EXCEPT !.radius = r, !.label = l] :
        r \in {None, Some(mm(6))}, l \in Labels}

Switches ==
    {[El("switch", mm(20), mm(30)) EXCEPT !.switch_type = st, !.scale = sc,
                                         !.label = l] :
        st \in {None, Some("toggle"), Some("rotary")}, sc \in Scales,
        l \in Labels}
    \cup {[El("switch", mm(20), mm(30)) EXCEPT !.label_top = a,
                                              !.label_center = b,
                                              !.label_bottom = c] :
             a, b, c \in {NoLabelIn, LabelStr("I")}}

\* labels whose position descriptor names no side, or a side and no mode
OddLabels ==
    {LabelDict(Some("Bad"), <<"diagonal">>, None, None),
     LabelDict(Some("Odd"), <<"top", "sideways">>, None, None)}

\* a component with such a label
OddlyLabelled ==
    {[El(t, mm(20), mm(30)) EXCEPT !.label = l] :
        t \in ComponentTypes, l \in OddLabels}

\* a toggle switch whose top and bottom labels carry a distance
DistantToggles ==
    {[El("switch", mm(20), mm(30)) EXCEPT !.label_top = a,
                                         !.label_bottom = b] :
        a, b \in {NoLabelIn,
                  LabelDict(Some("On"), None, None, Some(mm(12)))}}

\* a potentiometer whose knob is wider than its border ring
WideKnobs ==
    {[El("potentiometer", mm(20), mm(30)) EXCEPT
         !.knob_diameter = Some(mm(40)), !.scale = sc, !.label = l] :
        sc \in {NoScaleIn, ScaleIn(Some(MaxTicks), None, None, None, None)},
        l \in {NoLabelIn, LabelStr("Vol")}}

\* a list of m tick labels
LabelList(m) == [j \in 1 .. m |-> "L"]

\* a rotary switch with n ticks and m tick labels, the list given as the
\* switch's `scale_labels` or as the `labels` of its scale block
LabelledRotaries ==
    {[El("switch", mm(20), mm(30)) EXCEPT
         !.switch_type = Some("rotary"),
         !.scale = ScaleIn(Some(n), None, None, None, None),
         !.scale_labels = Some(LabelList(m))] : n, m \in 0 .. MaxTicks}
    \cup {[El("switch", mm(20), mm(30)) EXCEPT
              !.switch_type = Some("rotary"),
              !.scale = [ScaleIn(Some(n), None, None, None, None)
                            EXCEPT !.labels = Some(LabelList(m))]] :
             n, m \in 0 .. MaxTicks}

\* elements whose type the builder does not know (or that have none)
Unknowns == {El("dial", mm(1), mm(1)), El("custom", mm(1), mm(1)),
             [E0 EXCEPT !.x = mm(1), !.y = mm(1)]}

Group(o, border, width, height, label, elements) ==
    [At(El("group", 0, 0), o) EXCEPT !.border = border, !.width = width,
                                     !.height = height, !.label = label,
                                     !.elements = elements]

Bare(o, elements) == Group(o, NoBorderIn, None, None, NoLabelIn, elements)

Leaves == {El("potentiometer", 0, 0), El("socket", 0, 0),
           El("switch", 0, 0)}

\* group > group > leaf, then a sibling leaf, at every choice of offsets
Nested ==
    {<<Bare(a, <<Group(b, BorderIn(Some("full")), Some(mm(40)), Some(mm(20)),
                       NoLabelIn, <<At(l, c)>>),
                 At(El("socket", 0, 0), c)>>)>> :
        a, b, c \in Offsets, l \in Leaves}

Borders == {NoBorderIn, BorderIn(None)}
           \cup {BorderIn(Some(t)) : t \in {"none", "full", "top", "bottom"}}

Sizes == {None, Some(0), Some(mm(8)), Some(mm(40))}

GroupLabels ==
    {NoLabelIn, LabelStr("Tone")}
    \cup {LabelDict(Some("EQ"), <<side, mode>>, Some(mm(4)), None) :
             side \in {"top", "bottom", "left", "right"},
             mode \in {"inline", "inside"}}

Groups ==
    {Group([x |-> mm(10), y |-> mm(10)], b, w, h, l,
           <<At(El("socket", 0, 0), [x |-> mm(5), y |-> mm(5)])>>) :
        b \in Borders, w \in Sizes, h \in Sizes, l \in GroupLabels}

\* an unknown element first, after a sibling, and one and two groups deep
WithUnknown ==
    {<<u>> : u \in Unknowns}
    \cup {<<El("socket", mm(9), mm(9)), u>> : u \in Unknowns}
    \cup {<<Bare([x |-> 0, y |-> 0], <<El("socket", mm(9), mm(9)), u>>)>> :
             u \in Unknowns}
    \cup {<<El("potentiometer", mm(9), mm(9)),
            Bare([x |-> 0, y |-> 0],
                 <<Bare([x |-> 0, y |-> 0], <<u>>)>>)>> : u \in Unknowns}

\* a component with a label, then a sibling
Siblings ==
    {<<[El(t, mm(10), mm(10)) EXCEPT !.label = l], El(u, mm(30), mm(10))>> :
        t, u \in ComponentTypes, l \in {NoLabelIn, LabelStr("A")}}

ElementLists ==
    {<<e>> : e \in MountElements \cup Potentiometers \cup Sockets
                   \cup Switches \cup Groups \cup OddlyLabelled
                   \cup DistantToggles \cup WideKnobs \cup LabelledRotaries}
    \cup WithUnknown \cup Siblings \cup {<<>>}

Inputs ==
    {Doc(Some(m), es) : m \in Modes, es \in ElementLists}
    \cup {Doc(None, es) : es \in Nested}

----------------------------------------------------------------------------
(* main.py: main() *)

Frame(elements, offset, path) ==
    [elements |-> elements, i |-> 1, offset |-> offset, path |-> path]

Top == stack[Len(stack)]
Current == Top.elements[Top.i]

Init ==
    /\ input \in Inputs
    /\ pc = "start"
    /\ panel = None
    /\ dwg = <<>>
    /\ stack = <<>>
    /\ err = NoError
    /\ file = FALSE
    /\ calls = <<>>
    /\ nd_data = <<>>
    /\ nd_new_data = <<>>
    /\ nd_i = 0

\* panel = Panel.from_dict(data) (main.py:19); an exception is caught by
\* main's handler, which prints it and exits with status 1.
Build ==
    /\ pc = "start"
    /\ LET r == Panel_from_dict(input)
       IN IF r.err = NoError
          THEN /\ panel' = Some(r.obj)
               /\ pc' = "built"
               /\ err' = err
          ELSE /\ panel' = panel
               /\ pc' = "error"
               /\ err' = r.err
    /\ UNCHANGED <<input, dwg, stack, file, calls, nd_data, nd_new_data, nd_i>>

\* NewRenderer without the background rectangle
NewRendererBare ==
    /\ pc = "built"
    /\ dwg' = <<>>
    /\ stack' = <<Frame(panel[1].elements, [x |-> 0, y |-> 0], <<>>)>>
    /\ pc' = "rendering"
    /\ UNCHANGED <<input, panel, err, file, calls, nd_data, nd_new_data, nd_i>>

\* PanelRenderer(panel) (renderer.py:7-11) and the entry of render
\* (renderer.py:14): the background rectangle, then the root call
\* _render_group(panel.elements, 0, 0).
NewRenderer ==
    /\ pc = "built"
    /\ dwg' = <<rect("background", <<>>, 0, 0, panel[1].width,
                     panel[1].height, "#ffffff", 100)>>
    /\ stack' = <<Frame(panel[1].elements, [x |-> 0, y |-> 0], <<>>)>>
    /\ pc' = "rendering"
    /\ UNCHANGED <<input, panel, err, file, calls, nd_data, nd_new_data, nd_i>>

\* One pass of the loop of _render_group on a Group: its label and border,
\* then the recursive call on its children at (abs_x, abs_y).
RenderGroup ==
    /\ pc = "rendering"
    /\ Top.i <= Len(Top.elements)
    /\ Current.cls = "Group"
    /\ LET p == abs_pos(Top.offset, Current)
           owner == Top.path \o <<Top.i>>
       IN /\ dwg' = dwg \o render_group_own(Current, p.x, p.y, owner)
          /\ stack' = [stack EXCEPT ![Len(stack)].i = @ + 1]
                      \o <<Frame(Current.elements, p, owner)>>
          /\ calls' = Append(calls, owner)
    /\ UNCHANGED <<pc, input, panel, err, file, nd_data, nd_new_data, nd_i>>

\* One pass of the loop of _render_group on a component.  An exception
\* leaves render and main's handler exits with status 1; what the Drawing
\* holds is never saved.
RenderComponent ==
    /\ pc = "rendering"
    /\ Top.i <= Len(Top.elements)
    /\ Current.cls # "Group"
    /\ LET p == abs_pos(Top.offset, Current)
           owner == Top.path \o <<Top.i>>
           r == render_component(Current, p.x, p.y, panel[1].render_mode,
                                 owner)
       IN /\ dwg' = dwg \o r.prims
          /\ calls' = Append(calls, owner)
          /\ IF r.err = NoError
             THEN /\ stack' = [stack EXCEPT ![Len(stack)].i = @ + 1]
                  /\ UNCHANGED <<pc, err>>
             ELSE /\ stack' = <<>>
                  /\ pc' = "error"
                  /\ err' = r.err
    /\ UNCHANGED <<input, panel, file, nd_data, nd_new_data, nd_i>>

\* The loop of a recursive _render_group call is over: back to the caller.
Return ==
    /\ pc = "rendering"
    /\ Len(stack) > 1
    /\ Top.i > Len(Top.elements)
    /\ stack' = SubSeq(stack, 1, Len(stack) - 1)
    /\ UNCHANGED <<pc, input, panel, dwg, err, file, calls, nd_data, nd_new_data, nd_i>>

\* Save without waiting for the root call to be over
SaveEarly ==
    /\ pc = "rendering"
    /\ Len(stack) = 1
    /\ file' = TRUE
    /\ stack' = <<>>
    /\ pc' = "done"
    /\ UNCHANGED <<input, panel, dwg, err, calls, nd_data, nd_new_data, nd_i>>

\* The root call is over: self.dwg.saveas(filename) (renderer.py:15).
Save ==
    /\ pc = "rendering"
    /\ Len(stack) = 1
    /\ Top.i > Len(Top.elements)
    /\ file' = TRUE
    /\ stack' = <<>>
    /\ pc' = "done"
    /\ UNCHANGED <<input, panel, dwg, err, calls, nd_data, nd_new_data, nd_i>>

Next ==
    \/ Build
    \/ NewRenderer
    \/ RenderGroup
    \/ RenderComponent
    \/ Return
    \/ Save

Spec == Init /\ [][Next]_vars

----------------------------------------------------------------------------
(* Properties *)

Tree == panel[1].elements
Mode == panel[1].render_mode
Finished == pc \in {"done", "error"} /\ panel # None

RECURSIVE ElemAt(_, _)
\* the element of a tree at a path of child indices
ElemAt(elements, path) ==
    IF Len(path) = 1 THEN elements[path[1]]
    ELSE ElemAt(elements[path[1]].elements, Tail(path))

RECURSIVE PathSum(_, _)
\* the sum of the (x, y) of the element at a path and of every group
\* enclosing it
PathSum(elements, path) ==
    LET e == elements[path[1]]
    IN IF Len(path) = 1 THEN [x |-> e.x, y |-> e.y]
       ELSE LET r == PathSum(e.elements, Tail(path))
            IN [x |-> e.x + r.x, y |-> e.y + r.y]

RECURSIVE ComponentPaths(_, _)
\* the paths of the components (non-group elements) of a tree
ComponentPaths(elements, prefix) ==
    UNION {IF elements[i].cls = "Group"
           THEN ComponentPaths(elements[i].elements, prefix \o <<i>>)
           ELSE {prefix \o <<i>>} : i \in DOMAIN elements}

\* the primitives added for the element at path o, with a tag in tags
Tagged(o, tags) == {i \in DOMAIN dwg : dwg[i].owner = o /\ dwg[i].tag \in tags}
Count(o, tag) == Cardinality(Tagged(o, {tag}))

CentreTags == {"drill_circle", "knob", "knob_marker", "border_ring", "tick",
               "tick_label", "socket_body", "socket_bore", "toggle_lever"}
BoxTags == {"drill_rect", "toggle_body"}
DrillTags == {"drill_circle", "drill_rect", "drill_h", "drill_v"}
GlyphTags == {"knob", "knob_marker", "socket_body", "socket_bore",
              "toggle_body", "toggle_lever", "custom_body", "custom_x"}
BorderTags == {"border_top", "border_bottom", "border_left", "border_right"}

\* C1: every primitive of an element, at any depth, is placed about the sum
\* of the element's own (x, y) and the (x, y) of every enclosing group (the
\* panel root at (0, 0)): circles, ticks and the knob marker are centred or
\* start there, rectangles are centred there, the crosshair lines cross
\* there, a group's top and left border edges run through it.
C1_Accumulation ==
    \A i \in DOMAIN dwg :
        LET p == dwg[i]
        IN p.owner # <<>> =>
           LET a == PathSum(Tree, p.owner)
           IN /\ p.tag \in CentreTags => p.x1 = a.x /\ p.y1 = a.y
              /\ p.tag \in BoxTags =>
                   p.x1 + Half(p.x2) = a.x /\ p.y1 + Half(p.y2) = a.y
              /\ p.tag = "drill_h" =>
                   p.y1 = a.y /\ p.y2 = a.y /\ p.x1 + p.x2 = 2 * a.x
              /\ p.tag = "drill_v" =>
                   p.x1 = a.x /\ p.x2 = a.x /\ p.y1 + p.y2 = 2 * a.y
              /\ p.tag = "border_top" => p.y1 = a.y /\ p.y2 = a.y
              /\ p.tag = "border_left" => p.x1 = a.x /\ p.x2 = a.x

\* A knob drawn two groups deep, all three offsets non-zero and the sum
\* different from each of them.
C1_Witness ==
    /\ pc = "done"
    /\ \E i \in DOMAIN dwg :
          /\ Len(dwg[i].owner) = 3
          /\ dwg[i].tag = "knob"
          /\ ElemAt(Tree, SubSeq(dwg[i].owner, 1, 1)).x = mm(10)
          /\ ElemAt(Tree, SubSeq(dwg[i].owner, 1, 2)).x = mm(5)
          /\ ElemAt(Tree, dwg[i].owner).x = mm(10)
          /\ ElemAt(Tree, SubSeq(dwg[i].owner, 1, 1)).y = mm(4)
          /\ ElemAt(Tree, SubSeq(dwg[i].owner, 1, 2)).y = mm(2)
          /\ ElemAt(Tree, dwg[i].owner).y = mm(2)
          /\ dwg[i].x1 = mm(25)
          /\ dwg[i].y1 = mm(8)

KnownTypes == {"group", "potentiometer", "socket", "switch", "custom"}

RECURSIVE HasUnknownType(_)
\* some element of the document, at any depth, has a type outside
\* KnownTypes or no type
HasUnknownType(elements_data) ==
    \E i \in DOMAIN elements_data :
        LET e == elements_data[i]
        IN \/ e.type = None
           \/ e.type[1] \notin KnownTypes
           \/ e.type = Some("group") /\ HasUnknownType(e.elements)

\* C2: when the document holds, at any depth, an element whose type is
\* outside {group, potentiometer, socket, switch, custom} or missing, the
\* build ends in the unknown-element-type error, no Panel is returned and
\* nothing has been drawn or written.
C2_UnknownTypeFailsFast ==
    (HasUnknownType(input.elements) /\ pc # "start") =>
        /\ pc = "error"
        /\ err.kind = "UnknownElementType"
        /\ panel = None
        /\ dwg = <<>>
        /\ ~file

\* The build has failed on a "dial" two groups deep, after a valid sibling.
C2_Witness ==
    /\ pc = "error"
    /\ err.kind = "UnknownElementType"
    /\ Len(input.elements) = 2
    /\ input.elements[1].type = Some("potentiometer")
    /\ input.elements[2].type = Some("group")
    /\ Len(input.elements[2].elements) = 1
    /\ input.elements[2].elements[1].type = Some("group")
    /\ input.elements[2].elements[1].elements[1].type = Some("dial")

VariantOf(type) ==
    CASE type = "group" -> "Group"
      [] type = "potentiometer" -> "Potentiometer"
      [] type = "socket" -> "Socket"
      [] type = "switch" -> "Switch"
      [] type = "custom" -> "Custom"

TagsOf(cls) ==
    CASE cls = "Group" -> BorderTags \cup {"group_label"}
      [] cls = "Potentiometer" ->
            DrillTags \cup {"knob", "knob_marker", "border_ring", "tick", "label"}
      [] cls = "Socket" -> DrillTags \cup {"socket_body", "socket_bore", "label"}
      [] cls = "Switch" ->
            DrillTags \cup {"knob", "knob_marker", "toggle_body", "toggle_lever",
                            "tick", "tick_label", "label", "label_top",
                            "label_center", "label_bottom"}
      [] cls = "Custom" -> DrillTags \cup {"custom_body", "custom_x", "label"}

\* C3 (as claimed): a document whose elements all have one of the five
\* types group, potentiometer, socket, switch, custom is built, each
\* top-level element becomes the variant of its type, and what is drawn for
\* an element comes from that variant's routine.
C3_FiveTypesAccepted ==
    (~HasUnknownType(input.elements) /\ pc # "start") =>
        /\ panel # None
        /\ \A i \in DOMAIN input.elements :
              Tree[i].cls = VariantOf(input.elements[i].type[1])
        /\ \A i \in DOMAIN dwg :
              dwg[i].owner # <<>> =>
                 dwg[i].tag \in TagsOf(ElemAt(Tree, dwg[i].owner).cls)

ValidMount(m) ==
    \/ m.diameter # None /\ m.width = None /\ m.height = None
    \/ m.diameter = None /\ m.width # None /\ m.height # None

\* a mount block that sets diameter together with width or height
BothInBlock(e) ==
    /\ e.mount.given
    /\ e.mount.diameter # None
    /\ (e.mount.width # None \/ e.mount.height # None)

\* C4 (as claimed): every component the builder returns with a mount has
\* either the diameter alone or width and height alone, and a component
\* whose mount block sets diameter together with width or height fails the
\* build with an error naming its id.
C4_MountInvariant ==
    pc # "start" =>
        /\ panel # None =>
              \A o \in ComponentPaths(Tree, <<>>) :
                 ElemAt(Tree, o).mount # None =>
                    ValidMount(ElemAt(Tree, o).mount[1])
        /\ \A i \in DOMAIN input.elements :
              (input.elements[i].type # None
               /\ input.elements[i].type[1] \in ComponentTypes
               /\ BothInBlock(input.elements[i])) =>
                 /\ pc = "error"
                 /\ err = Raise("MountInvariant", input.elements[i].id)

TypeDefault(type) ==
    CASE type = "potentiometer" -> Some(mm(6))
      [] type = "socket" -> Some(mm(10))
      [] type = "switch" -> Some(mm(5))
      [] type = "custom" -> None

\* the mount the precedence rule of C5 gives an element mapping (a block
\* is given when it holds at least one key)
ClaimedMount(e) ==
    IF MountTruthy(e.mount)
    THEN Some(Mount(e.mount.diameter, e.mount.width, e.mount.height))
    ELSE IF e.install_diameter # None
    THEN Some(Mount(e.install_diameter, None, None))
    ELSE IF e.mount_width # None /\ e.mount_height # None
    THEN Some(Mount(None, e.mount_width, e.mount_height))
    ELSE IF TypeDefault(e.type[1]) # None
    THEN Some(Mount(TypeDefault(e.type[1]), None, None))
    ELSE None

\* C5 (as claimed): a potentiometer, socket, switch or custom component is
\* built with the mount of its mount block when one is given, else of
\* install_diameter, else of the mount_width + mount_height pair, else the
\* type default diameter (6, 10, 5), and a custom component with none of
\* these is built with no mount.
C5_MountPrecedence ==
    \A i \in DOMAIN input.elements :
        (pc # "start" /\ ~HasUnknownType(input.elements)
         /\ input.elements[i].type[1] \in ComponentTypes \cup {"custom"}) =>
            /\ panel # None
            /\ Tree[i].mount = ClaimedMount(input.elements[i])

Called(o) == \E k \in DOMAIN calls : calls[k] = o

\* the elements the renderer has been called on, by class
CalledOf(cls) ==
    {calls[k] : k \in {j \in DOMAIN calls : ElemAt(Tree, calls[j]).cls = cls}}

RoundMount(comp) == comp.mount # None /\ Truthy(comp.mount[1].diameter)

C7_BothDrawsDrillAndGlyph ==
    Finished =>
    \A o \in ComponentPaths(Tree, <<>>) :
        /\ Mode = "both" =>
             /\ Tagged(o, DrillTags) # {}
             /\ Tagged(o, GlyphTags) # {}
             /\ \A i \in Tagged(o, GlyphTags) : dwg[i].opacity = 50
        /\ Mode = "show" =>
             /\ Tagged(o, GlyphTags) # {}
             /\ \A i \in Tagged(o, GlyphTags) : dwg[i].opacity = 100

\* the drill pattern of C8 for a mount about the point a
DrillPatternAt(o, m, a) ==
    /\ Count(o, "drill_h") = 1
    /\ Count(o, "drill_v") = 1
    /\ Cardinality(Tagged(o, {"drill_circle", "drill_rect"})) = 1
    /\ LET half == IF m.diameter # None
                   THEN [w |-> Half(m.diameter[1]), h |-> Half(m.diameter[1])]
                   ELSE [w |-> Half(m.width[1]), h |-> Half(m.height[1])]
       IN /\ \A i \in Tagged(o, {"drill_circle"}) :
                /\ m.diameter # None
                /\ dwg[i].fill = "none"
                /\ dwg[i].x1 = a.x /\ dwg[i].y1 = a.y
                /\ dwg[i].x2 = half.w
          /\ \A i \in Tagged(o, {"drill_rect"}) :
                /\ m.diameter = None
                /\ dwg[i].fill = "none"
                /\ dwg[i].x1 = a.x - half.w /\ dwg[i].y1 = a.y - half.h
                /\ dwg[i].x2 = m.width[1] /\ dwg[i].y2 = m.height[1]
          /\ \A i \in Tagged(o, {"drill_h"}) :
                /\ dwg[i].y1 = a.y /\ dwg[i].y2 = a.y
                /\ dwg[i].x1 = a.x - half.w - mm(3)
                /\ dwg[i].x2 = a.x + half.w + mm(3)
          /\ \A i \in Tagged(o, {"drill_v"}) :
                /\ dwg[i].x1 = a.x /\ dwg[i].x2 = a.x
                /\ dwg[i].y1 = a.y - half.h - mm(3)
                /\ dwg[i].y2 = a.y + half.h + mm(3)

\* C8 (as claimed): when main() is over with render_mode hide or both,
\* every component of the tree has exactly one drill pattern: an unfilled
\* circle of radius diameter/2 or an unfilled width x height rectangle
\* centred on its absolute position, one horizontal and one vertical line
\* through the centre, each reaching 3 mm beyond the shape on both sides.
C8_OneDrillPatternEach ==
    (Finished /\ Mode \in {"hide", "both"}) =>
    \A o \in ComponentPaths(Tree, <<>>) :
        LET comp == ElemAt(Tree, o)
        IN /\ comp.mount # None
           /\ ValidMount(comp.mount[1])
           /\ DrillPatternAt(o, comp.mount[1], PathSum(Tree, o))

BorderType(g) == IF g.border = None THEN "none" ELSE g.border[1].type

\* C9: a rendered group whose border type is not none and which has no
\* width or no height (0 counts as none) has no border primitive, its pass
\* raises no error, and its children are rendered: each is called once
\* main() is over, and what is drawn for a child is centred on the sum of
\* the offsets down to it.
C9_BorderSkipped ==
    panel # None =>
    \A o \in CalledOf("Group") :
        LET g == ElemAt(Tree, o)
        IN (BorderType(g) # "none" /\ ~(Truthy(g.width) /\ Truthy(g.height))) =>
              /\ Tagged(o, BorderTags) = {}
              /\ pc = "error" => calls[Len(calls)] # o
              /\ \A c \in DOMAIN g.elements :
                    /\ pc = "done" => Called(o \o <<c>>)
                    /\ \A i \in Tagged(o \o <<c>>, CentreTags) :
                          /\ dwg[i].x1 = PathSum(Tree, o).x + g.elements[c].x
                          /\ dwg[i].y1 = PathSum(Tree, o).y + g.elements[c].y

\* A group at (10, 10) with a full border and a height but no width has
\* been rendered without a border primitive and main() has written the
\* file; its socket at (5, 5) is drawn at (15, 15).
C9_Witness ==
    /\ pc = "done"
    /\ file
    /\ Len(Tree) = 1
    /\ Tree[1].cls = "Group"
    /\ BorderType(Tree[1]) = "full"
    /\ Tree[1].width = None
    /\ Tree[1].height = Some(mm(40))
    /\ Tagged(<<1>>, BorderTags) = {}
    /\ \E i \in Tagged(<<1, 1>>, {"socket_body"}) :
          dwg[i].x1 = mm(15) /\ dwg[i].y1 = mm(15)

HasInlineLabel(g) ==
    /\ g.label # None
    /\ g.label[1].position # None
    /\ Len(g.label[1].position) > 1
    /\ g.label[1].position[2] = "inline"

Edge(tag, x1, y1, x2, y2) == [tag |-> tag, x1 |-> x1, y1 |-> y1, x2 |-> x2, y2 |-> y2]

\* the edges C10 gives a border type, for the w x h box at a
ClaimedEdges(type, a, w, h) ==
    LET top == Edge("border_top", a.x, a.y, a.x + w, a.y)
        bottom == Edge("border_bottom", a.x, a.y + h, a.x + w, a.y + h)
        left == Edge("border_left", a.x, a.y, a.x, a.y + h)
        right == Edge("border_right", a.x + w, a.y, a.x + w, a.y + h)
    IN CASE type = "full" -> {top, bottom, left, right}
         [] type = "top" -> {top}
         [] type = "bottom" -> {bottom}
         [] type = "none" -> {}

\* C10: a rendered group with a (non-zero) width and height and no inline
\* label has exactly the border edges of its border type: none for type
\* none or no border; for full the four sides of the width x height box at
\* the group's absolute origin, one line each; for top the top side alone;
\* for bottom the bottom side alone.
C10_BorderEdges ==
    panel # None =>
    \A o \in CalledOf("Group") :
        LET g == ElemAt(Tree, o)
        IN (Truthy(g.width) /\ Truthy(g.height) /\ ~HasInlineLabel(g)) =>
              LET want == ClaimedEdges(BorderType(g), PathSum(Tree, o),
                                       g.width[1], g.height[1])
                  got == Tagged(o, BorderTags)
              IN /\ {Edge(dwg[i].tag, dwg[i].x1, dwg[i].y1, dwg[i].x2,
                          dwg[i].y2) : i \in got} = want
                 /\ Cardinality(got) = Cardinality(want)

\* A 40 x 40 group at (10, 10) with a top border and an inside label has
\* been rendered with its top edge from (10, 10) to (50, 10) and no other.
C10_Witness ==
    /\ pc = "done"
    /\ Len(Tree) = 1
    /\ Tree[1].cls = "Group"
    /\ BorderType(Tree[1]) = "top"
    /\ Tree[1].label # None
    /\ Cardinality(Tagged(<<1>>, BorderTags)) = 1
    /\ \E i \in Tagged(<<1>>, {"border_top"}) :
          /\ dwg[i].x1 = mm(10) /\ dwg[i].y1 = mm(10)
          /\ dwg[i].x2 = mm(50) /\ dwg[i].y2 = mm(10)

\* the font size a group's label is measured with (renderer.py:133-146)
LabelSize(g) ==
    LET f == get_element_font(g)
    IN IF Truthy(f) THEN f[1] ELSE default_font_mm

InlineSide(g) ==
    IF HasInlineLabel(g) /\ g.label[1].text # "" THEN g.label[1].position[1]
    ELSE ""

\* the gap renderer.py:168, 180, 205, 221 leaves for an inline label, as
\* <<start, end>> along the edge it sits on
InlineGap(g, a) ==
    IF InlineSide(g) \in {"top", "bottom"}
    THEN LET c == a.x + Half(g.width[1])
             tw == (Len(g.label[1].text) * LabelSize(g) * 3) \div 5
         IN <<c - Half(tw) - mm(2), c + Half(tw) + mm(2)>>
    ELSE LET c == a.y + Half(g.height[1]) + (LabelSize(g) * 7) \div 20
         IN <<c - Half(LabelSize(g)) - mm(2), c + Half(LabelSize(g)) + mm(2)>>

\* the whole edge on a side of the w x h box at a
WholeEdge(side, a, w, h) ==
    CASE side = "top" -> Edge("border_top", a.x, a.y, a.x + w, a.y)
      [] side = "bottom" -> Edge("border_bottom", a.x, a.y + h, a.x + w, a.y + h)
      [] side = "left" -> Edge("border_left", a.x, a.y, a.x, a.y + h)
      [] side = "right" -> Edge("border_right", a.x + w, a.y, a.x + w, a.y + h)

EdgeOf(p) == Edge(p.tag, p.x1, p.y1, p.x2, p.y2)

SidesOf(type) ==
    CASE type = "full" -> {"top", "bottom", "left", "right"}
      [] type = "top" -> {"top"}
      [] type = "bottom" -> {"bottom"}
      [] OTHER -> {}

\* the rendered groups whose border is drawn and carries an inline label
Gapped ==
    {o \in CalledOf("Group") :
        LET g == ElemAt(Tree, o)
        IN /\ Truthy(g.width) /\ Truthy(g.height)
           /\ InlineSide(g) \in SidesOf(BorderType(g))}

\* C11: on the edge an inline label sits on, at most two segments are
\* drawn; each has positive length, lies on the edge within its extent and
\* outside the open gap; the segment before the gap is drawn exactly when
\* the gap starts after the edge's start, the one after it exactly when the
\* gap ends before the edge's end; every other edge of the border is one
\* whole line.
C11_GapSegments ==
    panel # None =>
    \A o \in Gapped :
        LET g == ElemAt(Tree, o)
            a == PathSum(Tree, o)
            side == InlineSide(g)
            gap == InlineGap(g, a)
            e == WholeEdge(side, a, g.width[1], g.height[1])
            vertical == side \in {"left", "right"}
            lo == IF vertical THEN e.y1 ELSE e.x1
            hi == IF vertical THEN e.y2 ELSE e.x2
            segs == Tagged(o, {e.tag})
            from(i) == IF vertical THEN dwg[i].y1 ELSE dwg[i].x1
            to(i) == IF vertical THEN dwg[i].y2 ELSE dwg[i].x2
        IN /\ Cardinality(segs) =
                 (IF gap[1] > lo THEN 1 ELSE 0) + (IF gap[2] < hi THEN 1 ELSE 0)
           /\ Cardinality(segs) <= 2
           /\ \A i \in segs :
                 /\ from(i) < to(i)
                 /\ lo <= from(i) /\ to(i) <= hi
                 /\ to(i) <= gap[1] \/ from(i) >= gap[2]
                 /\ IF vertical
                    THEN dwg[i].x1 = e.x1 /\ dwg[i].x2 = e.x1
                    ELSE dwg[i].y1 = e.y1 /\ dwg[i].y2 = e.y1
           /\ \A other \in SidesOf(BorderType(g)) \ {side} :
                 LET w == WholeEdge(other, a, g.width[1], g.height[1])
                 IN /\ Count(o, w.tag) = 1
                    /\ \A i \in Tagged(o, {w.tag}) : EdgeOf(dwg[i]) = w

\* A 40 x 8 group at (10, 10) with a full border and "EQ" inline on its
\* left edge: the gap [11.4, 19.4] leaves the one segment from y = 10 to
\* 11.4, the other three edges are whole.
C11_Witness ==
    /\ pc = "done"
    /\ <<1>> \in Gapped
    /\ InlineSide(Tree[1]) = "left"
    /\ BorderType(Tree[1]) = "full"
    /\ Tree[1].height = Some(mm(8))
    /\ Tree[1].width = Some(mm(40))
    /\ Count(<<1>>, "border_left") = 1
    /\ \E i \in Tagged(<<1>>, {"border_left"}) :
          dwg[i].y1 = mm(10) /\ dwg[i].y2 = (mm(10) + mm(1)) + (mm(4) \div 10)
    /\ Cardinality(Tagged(<<1>>, BorderTags)) = 4

\* the segments drawn on an edge leave exactly the interval <<gs, ge>> open:
\* one ends at gs if gs is after the edge's start, one starts at ge if ge is
\* before its end, and there is no other
LeavesOpen(o, side, a, w, h, gs, ge) ==
    LET e == WholeEdge(side, a, w, h)
        vertical == side \in {"left", "right"}
        lo == IF vertical THEN e.y1 ELSE e.x1
        hi == IF vertical THEN e.y2 ELSE e.x2
        ends == {IF vertical THEN <<dwg[i].y1, dwg[i].y2>>
                 ELSE <<dwg[i].x1, dwg[i].x2>> : i \in Tagged(o, {e.tag})}
    IN ends = (IF gs > lo THEN {<<lo, gs>>} ELSE {})
              \cup (IF ge < hi THEN {<<ge, hi>>} ELSE {})

\* textwidth = len(text) x font_size x 0.6
TextWidth(g) == (Len(g.label[1].text) * LabelSize(g) * 6) \div 10

\* the rendered groups whose border is drawn
Bordered ==
    {o \in CalledOf("Group") :
        LET g == ElemAt(Tree, o)
        IN Truthy(g.width) /\ Truthy(g.height) /\ BorderType(g) # "none"}

\* C12 (amended): an inline group label on the top or bottom edge opens
\* that edge over [c - textwidth/2 - 2, c + textwidth/2 + 2], c the
\* horizontal centre of the box and textwidth = len(text) x font_size x
\* 0.6; an inline label on the left or right edge opens that edge over
\* [c - font_size/2 - 2, c + font_size/2 + 2], c the vertical centre of the
\* box plus 0.35 x font_size (a gap of font_size + 4); a label with mode
\* inside or outside, or no label, leaves every drawn edge whole.
C12_InlineGap ==
    panel # None =>
    \A o \in Bordered :
        LET g == ElemAt(Tree, o)
            a == PathSum(Tree, o)
            w == g.width[1]
            h == g.height[1]
            side == InlineSide(g)
            cx == a.x + Half(w)
            cy == a.y + Half(h) + (35 * LabelSize(g)) \div 100
        IN /\ (side \in {"top", "bottom"} /\ side \in SidesOf(BorderType(g))) =>
                LeavesOpen(o, side, a, w, h, cx - Half(TextWidth(g)) - mm(2),
                           cx + Half(TextWidth(g)) + mm(2))
           /\ (side \in {"left", "right"} /\ side \in SidesOf(BorderType(g))) =>
                LeavesOpen(o, side, a, w, h, cy - Half(LabelSize(g)) - mm(2),
                           cy + Half(LabelSize(g)) + mm(2))
           /\ \A other \in SidesOf(BorderType(g)) \ {side} :
                \A i \in Tagged(o, {WholeEdge(other, a, w, h).tag}) :
                    EdgeOf(dwg[i]) = WholeEdge(other, a, w, h)

\* A 40 x 40 group at (10, 10) with a full border and "EQ" (4 mm) inline on
\* its right edge: that edge is open from y = 27.4 to y = 35.4, a gap of
\* 4 + 4 = 8 mm, where the text width would give 4.8 + 4.
C12_Witness ==
    /\ pc = "done"
    /\ <<1>> \in Bordered
    /\ InlineSide(Tree[1]) = "right"
    /\ BorderType(Tree[1]) = "full"
    /\ Tree[1].height = Some(mm(40))
    /\ Tree[1].width = Some(mm(40))
    /\ TextWidth(Tree[1]) = mm(48) \div 10
    /\ \E i, j \in Tagged(<<1>>, {"border_right"}) :
          /\ dwg[i].y1 = mm(10) /\ dwg[i].y2 = mm(274) \div 10
          /\ dwg[j].y1 = mm(354) \div 10 /\ dwg[j].y2 = mm(50)

\* C12 (as claimed): an inline group label on any side opens the edge it
\* sits on over [c - textwidth/2 - 2, c + textwidth/2 + 2], c the label's
\* centre along that edge and textwidth = len(text) x font_size x 0.6; a
\* label with mode inside or outside leaves every drawn edge whole.
C12_GapByTextWidth ==
    panel # None =>
    \A o \in Bordered :
        LET g == ElemAt(Tree, o)
            a == PathSum(Tree, o)
            w == g.width[1]
            h == g.height[1]
            side == InlineSide(g)
            c == IF side \in {"top", "bottom"} THEN a.x + Half(w)
                 ELSE a.y + Half(h) + (35 * LabelSize(g)) \div 100
        IN /\ side \in SidesOf(BorderType(g)) =>
                LeavesOpen(o, side, a, w, h, c - Half(TextWidth(g)) - mm(2),
                           c + Half(TextWidth(g)) + mm(2))
           /\ side = "" =>
                \A other \in SidesOf(BorderType(g)) :
                   \A i \in Tagged(o, {WholeEdge(other, a, w, h).tag}) :
                       EdgeOf(dwg[i]) = WholeEdge(other, a, w, h)

\* the rendered components that carry a scale the renderer draws: every
\* potentiometer with one, every rotary switch with one
Scaled ==
    {o \in CalledOf("Potentiometer") : ElemAt(Tree, o).scale # None}
    \cup {o \in CalledOf("Switch") :
             /\ ElemAt(Tree, o).switch_type = "rotary"
             /\ ElemAt(Tree, o).scale # None}

\* C13 (as claimed): a rendered potentiometer or rotary switch whose scale
\* has num_ticks = n >= 1 and major_tick_interval = k >= 1 has exactly n
\* ticks, one for each index 0 .. n-1, and tick i is major exactly when
\* i mod k = 0.
C13_TickCount ==
    panel # None =>
    \A o \in Scaled :
        LET s == ElemAt(Tree, o).scale[1]
        IN (s.num_ticks >= 1 /\ s.major_tick_interval >= 1) =>
              /\ Count(o, "tick") = s.num_ticks
              /\ {dwg[i].idx : i \in Tagged(o, {"tick"})} = 0 .. (s.num_ticks - 1)
              /\ \A i \in Tagged(o, {"tick"}) :
                    dwg[i].major = (dwg[i].idx % s.major_tick_interval = 0)

----------------------------------------------------------------------------
(* models.py: to_mm and normalize_data on raw values.                      *)
(*                                                                         *)
(* A raw value is a number (kind "num", n in units of 1/7200 mm), a string *)
(* (kind "str", s the sequence of its characters) or anything else (kind   *)
(* "other": None, a list, a mapping).                                      *)

Num(n) == [kind |-> "num", n |-> n, s |-> <<>>]
Str(s) == [kind |-> "str", n |-> 0, s |-> s]
Other == [kind |-> "other", n |-> 0, s |-> <<>>]

IsSpace(c) == c = " "

RECURSIVE lstrip(_)
lstrip(s) == IF s # <<>> /\ IsSpace(Head(s)) THEN lstrip(Tail(s)) ELSE s

RECURSIVE rstrip(_)
rstrip(s) ==
    IF s # <<>> /\ IsSpace(s[Len(s)]) THEN rstrip(SubSeq(s, 1, Len(s) - 1))
    ELSE s

\* str.strip()
strip(s) == rstrip(lstrip(s))

LowerChar(c) ==
    CASE c = "A" -> "a" [] c = "B" -> "b" [] c = "C" -> "c" [] c = "I" -> "i"
      [] c = "M" -> "m" [] c = "N" -> "n" [] c = "P" -> "p" [] c = "T" -> "t"
      [] c = "X" -> "x" [] OTHER -> c

\* str.lower()
lower(s) == [i \in DOMAIN s |-> LowerChar(s[i])]

\* str.endswith(suffix)
endswith(s, suffix) ==
    /\ Len(s) >= Len(suffix)
    /\ SubSeq(s, Len(s) - Len(suffix) + 1, Len(s)) = suffix

\* s[:-n]
DropLast(s, n) == SubSeq(s, 1, Len(s) - n)

DigitChars == <<"0", "1", "2", "3", "4", "5", "6", "7", "8", "9">>
IsDigit(c) == \E d \in DOMAIN DigitChars : DigitChars[d] = c
DigitVal(c) == (CHOOSE d \in DOMAIN DigitChars : DigitChars[d] = c) - 1

RECURSIVE IntVal(_)
IntVal(s) ==
    IF s = <<>> THEN 0
    ELSE IntVal(SubSeq(s, 1, Len(s) - 1)) * 10 + DigitVal(s[Len(s)])

RECURSIVE Pow10(_)
Pow10(n) == IF n = 0 THEN 1 ELSE 10 * Pow10(n - 1)

\* float(s) on a string: surrounding blanks, an optional sign, digits with
\* at most one decimal point and at least one digit; anything else is a
\* ValueError (ok = FALSE).  Exponents, inf, nan and underscores are not in
\* the alphabet of the strings used here.
float_of(s) ==
    LET t == strip(s)
        neg == t # <<>> /\ Head(t) = "-"
        signed == t # <<>> /\ Head(t) \in {"-", "+"}
        body == IF signed THEN Tail(t) ELSE t
        dots == {i \in DOMAIN body : body[i] = "."}
        dot == CHOOSE i \in dots : TRUE
        ip == IF dots = {} THEN body ELSE SubSeq(body, 1, dot - 1)
        fp == IF dots = {} THEN <<>> ELSE SubSeq(body, dot + 1, Len(body))
        ok == /\ Cardinality(dots) <= 1
              /\ \A i \in DOMAIN body : i \in dots \/ IsDigit(body[i])
              /\ Len(body) > Cardinality(dots)
        mag == IntVal(ip) * 7200 + (IntVal(fp) * 7200) \div Pow10(Len(fp))
    IN [ok |-> ok, v |-> IF ~ok THEN 0 ELSE IF neg THEN 0 - mag ELSE mag]

Returns(value) == [raised |-> FALSE, value |-> value]
RaisesValueError == [raised |-> TRUE, value |-> Other]

\* the unit suffixes of to_mm in the order it tests them, each with its
\* factor as <<numerator, denominator>>: 10.0, 25.4, 25.4/72.0, 25.4/96.0
unit_suffixes ==
    << [suffix |-> <<"m", "m">>, factor |-> <<1, 1>>],
       [suffix |-> <<"c", "m">>, factor |-> <<10, 1>>],
       [suffix |-> <<"i", "n">>, factor |-> <<254, 10>>],
       [suffix |-> <<"\"">>, factor |-> <<254, 10>>],
       [suffix |-> <<"p", "t">>, factor |-> <<254, 720>>],
       [suffix |-> <<"p", "x">>, factor |-> <<254, 960>>] >>

\* suffixed without the factor: every unit taken for millimetres
suffixed_unscaled(val, u) ==
    LET f == float_of(DropLast(val, Len(u.suffix)))
    IN IF ~f.ok THEN RaisesValueError ELSE Returns(Num(f.v))

\* float(val[:-len(suffix)]) * factor: the ValueError of float is not caught
suffixed(val, u) ==
    LET f == float_of(DropLast(val, Len(u.suffix)))
    IN IF ~f.ok THEN RaisesValueError
       ELSE Returns(Num((f.v * u.factor[1]) \div u.factor[2]))

\* the else branch: float(val), or the value itself on ValueError
unsuffixed(value, val) ==
    LET f == float_of(val)
    IN IF f.ok THEN Returns(Num(f.v)) ELSE Returns(value)

\* to_mm on a raw value
to_mm_literal(value) ==
    IF value.kind = "num" THEN Returns(Num(to_mm(value.n)))
    ELSE IF value.kind = "str"
    THEN LET val == lower(strip(value.s))
             matching == {i \in DOMAIN unit_suffixes :
                             endswith(val, unit_suffixes[i].suffix)}
         IN IF matching = {} THEN unsuffixed(value, val)
            ELSE suffixed(val, unit_suffixes[CHOOSE i \in matching :
                                                \A j \in matching : i <= j])
    ELSE Returns(value)

DIMENSION_KEYS ==
    {"x", "y", "width", "height", "radius", "thickness", "font_size", "size",
     "knob_diameter", "border_diameter", "border_thickness", "tick_size",
     "install_diameter", "mount_width", "mount_height", "diameter"}

----------------------------------------------------------------------------
(* The mappings normalize_data is run on. *)

MaxNum == 3    \* numerals include 2, 4, .. 2 * MaxNum

RECURSIVE NatStr(_)
\* the decimal digits of a natural number
NatStr(n) ==
    IF n < 10 THEN <<DigitChars[n + 1]>>
    ELSE NatStr(n \div 10) \o <<DigitChars[(n % 10) + 1]>>

\* the numeral of t tenths: "25.4" for 254, "72" for 720, "-1" for -10
Numeral(t) ==
    LET a == IF t < 0 THEN 0 - t ELSE t
    IN (IF t < 0 THEN <<"-">> ELSE <<>>)
       \o NatStr(a \div 10)
       \o (IF a % 10 = 0 THEN <<>> ELSE <<".", DigitChars[(a % 10) + 1]>>)

\* numerals are kept to an even number of tenths, so that every product
\* with 25.4/96 is a whole number of units
Tenths == {0, 2, 10, 254, 720, 960, 0 - 10} \cup {20 * j : j \in 1 .. MaxNum}

\* how a unit may be written: nothing, or the suffix in either case
UnitSpellings ==
    {<<>>, <<"m", "m">>, <<"M", "M">>, <<"c", "m">>, <<"C", "m">>,
     <<"i", "n">>, <<"I", "N">>, <<"\"">>, <<"p", "t">>, <<"P", "T">>,
     <<"p", "x">>, <<"P", "x">>}

Paddings == {<<<<>>, <<>>, <<>>>>, <<<<" ">>, <<>>, <<" ", " ">>>>,
             <<<<>>, <<" ">>, <<>>>>}

\* a numeral with a unit: text, and what it was written from
Literal(t, u, pad) ==
    [text |-> pad[1] \o Numeral(t) \o pad[2] \o u \o pad[3],
     tenths |-> t, unit |-> lower(u)]

Literals == {Literal(t, u, pad) : t \in Tenths, u \in UnitSpellings,
                                  pad \in Paddings}

\* strings float() rejects, bare and with a unit suffix
Unparseable ==
    {<<"a", "b", "c">>, <<>>, <<"1", ".", "2", ".", "3">>, <<"5", "m">>,
     <<"-">>, <<"1", " ", "0">>,
     <<"a", "b", "c", "m", "m">>, <<"m", "m">>, <<"a", "b", "c", "p", "t">>,
     <<"1", ".", "2", ".", "3", "c", "m">>, <<"x", "i", "n">>,
     <<"a", "\"">>, <<"-", "p", "x">>, <<" ", "A", "B", "C", "M", "M">>}

RawValues ==
    {Str(l.text) : l \in Literals} \cup {Str(u) : u \in Unparseable}
    \cup {Num(mm(n)) : n \in {0, 10}} \cup {Other}

Pair(key, value) == [key |-> key, value |-> value]

\* one dimension key and one other key, in either order
Mappings ==
    LET dims == {Pair(key, v) : key \in {"x", "tick_size"}, v \in RawValues}
        rest == {Pair("id", Str(<<"e">>)), Pair("text", Str(<<"5", "m", "m">>)),
                 Pair("position", Str(<<"a", "b", "c", "m", "m">>)),
                 Pair("num_ticks", Num(11))}
    IN {<<d, r>> : d \in dims, r \in rest}
       \cup {<<r, d>> : d \in dims, r \in rest}

----------------------------------------------------------------------------
(* models.py: normalize_data *)

NormInit ==
    /\ nd_data \in Mappings
    /\ nd_new_data = nd_data          \* new_data = data.copy()
    /\ nd_i = 1
    /\ pc = "normalizing"
    /\ err = NoError
    /\ input = Doc(None, <<>>)
    /\ panel = None
    /\ dwg = <<>>
    /\ stack = <<>>
    /\ file = FALSE
    /\ calls = <<>>

\* One pass of `for key, value in new_data.items()` (models.py:34-36).
NormalizeKey ==
    /\ pc = "normalizing"
    /\ nd_i <= Len(nd_new_data)
    /\ LET key == nd_new_data[nd_i].key
           r == to_mm_literal(nd_new_data[nd_i].value)
       IN IF key \notin DIMENSION_KEYS
          THEN /\ nd_i' = nd_i + 1
               /\ UNCHANGED <<nd_new_data, pc, err>>
          ELSE IF r.raised
          THEN /\ pc' = "raised"
               /\ err' = Raise("ValueError", key)
               /\ UNCHANGED <<nd_new_data, nd_i>>
          ELSE /\ nd_new_data' = [nd_new_data EXCEPT ![nd_i].value = r.value]
               /\ nd_i' = nd_i + 1
               /\ UNCHANGED <<pc, err>>
    /\ UNCHANGED <<nd_data, input, panel, dwg, stack, file, calls>>

\* return new_data (models.py:37)
NormalizeReturn ==
    /\ pc = "normalizing"
    /\ nd_i > Len(nd_new_data)
    /\ pc' = "normalized"
    /\ UNCHANGED <<nd_data, nd_new_data, nd_i, err, input, panel, dwg, stack,
                   file, calls>>

NormNext == NormalizeKey \/ NormalizeReturn

NormSpec == NormInit /\ [][NormNext]_vars

----------------------------------------------------------------------------
(* Properties of to_mm and normalize_data *)

\* what C14 gives a numeral of t tenths with a unit, in units of 1/7200 mm
ClaimedMm(t, unit) ==
    CASE unit \in {<<>>, <<"m", "m">>} -> t * 720
      [] unit = <<"c", "m">> -> t * 720 * 10
      [] unit \in {<<"i", "n">>, <<"\"">>} -> t * 72 * 254
      [] unit = <<"p", "t">> -> t * 254              \* t/10 x 25.4/72 mm
      [] unit = <<"p", "x">> -> (t \div 2) * 381     \* t/10 x 25.4/96 mm

\* the pairs of the mapping the loop has been through
Normalized == 1 .. (nd_i - 1)

Chars254mm == <<"2", "5", ".", "4", "m", "m">>
Chars1in == <<"1", "i", "n">>
Chars72pt == <<"7", "2", "p", "t">>
Chars96px == <<"9", "6", "p", "x">>

\* C14: under a dimension key, normalize_data's to_mm replaces a bare
\* number by itself and a numeral with no suffix or with mm, cm, in, ", pt
\* or px (in either case, blanks around it) by the number times 1, 1, 10,
\* 25.4, 25.4, 25.4/72, 25.4/96, without raising; "25.4mm", "1in", "72pt"
\* and "96px" all become 25.4.
C14_Conversions ==
    \A j \in DOMAIN nd_data :
        nd_data[j].key \in DIMENSION_KEYS =>
           LET v == nd_data[j].value
               out == nd_new_data[j].value
           IN /\ \A l \in Literals :
                    v = Str(l.text) =>
                       /\ ~(pc = "raised" /\ nd_i = j)
                       /\ j \in Normalized =>
                             out = Num(ClaimedMm(l.tenths, l.unit))
              /\ (v.kind = "num" /\ j \in Normalized) => out = v
              /\ (v \in {Str(Chars254mm), Str(Chars1in), Str(Chars72pt),
                         Str(Chars96px)} /\ j \in Normalized) =>
                    out = Num(mm(254) \div 10)

\* normalize_data has returned with tick_size: " 72PT  " replaced by 25.4.
C14_Witness ==
    /\ pc = "normalized"
    /\ nd_data[2] = Pair("tick_size", Str(<<" ", "7", "2", "P", "T", " ", " ">>))
    /\ nd_new_data[2] = Pair("tick_size", Num(mm(254) \div 10))
    /\ nd_new_data[1] = nd_data[1]

\* strings float() rejects once blanks, case and a unit suffix are removed
Rejected(value) ==
    /\ value.kind = "str"
    /\ LET val == lower(strip(value.s))
       IN \E u \in {<<>>, <<"m", "m">>, <<"c", "m">>, <<"i", "n">>, <<"\"">>,
                    <<"p", "t">>, <<"p", "x">>} :
             /\ endswith(val, u)
             /\ u # <<>> \/ ~\E w \in {<<"m", "m">>, <<"c", "m">>, <<"i", "n">>,
                                       <<"\"">>, <<"p", "t">>, <<"p", "x">>} :
                                endswith(val, w)
             /\ ~float_of(DropLast(val, Len(u))).ok

\* C15 (as claimed): normalize_data never raises; a string under a
\* dimension key that is not a number once its unit suffix is removed
\* (with or without a suffix) is left as it was, and the value of a key
\* outside the dimension keys is left as it was.
C15_NeverRaises ==
    /\ pc # "raised"
    /\ \A j \in Normalized :
          (nd_data[j].key \notin DIMENSION_KEYS \/ Rejected(nd_data[j].value))
             => nd_new_data[j] = nd_data[j]

----------------------------------------------------------------------------
(* Properties of main(): phases, completion, order, ticks *)

RECURSIVE AllPaths(_, _)
\* the paths of all the elements of a tree, groups included
AllPaths(elements, prefix) ==
    UNION {{prefix \o <<i>>}
           \cup (IF elements[i].cls = "Group"
                 THEN AllPaths(elements[i].elements, prefix \o <<i>>)
                 ELSE {}) : i \in DOMAIN elements}

\* C16: nothing is drawn before Panel.from_dict has returned the whole
\* tree; the file is written only when the traversal has been through
\* every element and no error was raised; a run that has ended in an error
\* has written no file.
C16_Phases ==
    /\ pc \in {"start", "built"} => dwg = <<>> /\ ~file
    /\ dwg # <<>> => panel # None /\ pc \in {"rendering", "done", "error"}
    /\ file => /\ pc = "done"
               /\ err = NoError
               /\ stack = <<>>
               /\ \A o \in AllPaths(Tree, <<>>) : Called(o)
    /\ pc = "error" => ~file

\* A run that failed while rendering: a potentiometer was drawn, the
\* second element was never reached, and no file was written.
C16_Witness ==
    /\ pc = "error"
    /\ panel # None
    /\ Len(Tree) = 2
    /\ Count(<<1>>, "knob") = 1
    /\ ~Called(<<2>>)
    /\ ~file

\* C17 (as claimed): once Panel.from_dict has returned a tree the render
\* runs to completion: a run fails only by a construction error, with no
\* panel and nothing drawn, and a run that has stopped after a successful
\* build has written the file.
C17_RenderCompletes ==
    /\ pc = "error" => panel = None /\ dwg = <<>>
    /\ (panel # None /\ stack = <<>> /\ pc \notin {"built"}) => pc = "done" /\ file

\* a before b in depth-first declaration order: a is an ancestor of b, or
\* they part at a child index where a's is the smaller
Precedes(a, b) ==
    \/ Len(a) <= Len(b) /\ SubSeq(b, 1, Len(a)) = a
    \/ \E n \in 1 .. Min(Len(a), Len(b)) :
          /\ SubSeq(a, 1, n - 1) = SubSeq(b, 1, n - 1)
          /\ a[n] < b[n]

\* C18: the first primitive is the background rectangle; after it the
\* primitives come in depth-first declaration order of their elements:
\* everything of an element and its descendants before anything of a later
\* sibling, a group's own label and border before anything of its
\* children.
C18_EmissionOrder ==
    /\ dwg # <<>> => dwg[1].tag = "background" /\ dwg[1].owner = <<>>
    /\ \A i, j \in DOMAIN dwg :
          (1 < i /\ i < j) =>
             /\ dwg[i].owner # <<>>
             /\ Precedes(dwg[i].owner, dwg[j].owner)

\* group > bordered group > knob, then a socket beside the bordered group:
\* the border, the knob and the socket were drawn in that order.
C18_Witness ==
    /\ pc = "done"
    /\ \E i, j, l \in DOMAIN dwg :
          /\ i < j /\ j < l
          /\ dwg[i].owner = <<1, 1>> /\ dwg[i].tag = "border_right"
          /\ dwg[j].owner = <<1, 1, 1>> /\ dwg[j].tag = "knob"
          /\ dwg[l].owner = <<1, 2>> /\ dwg[l].tag = "socket_body"

\* the length of a line tick, the radius of a dot tick
TickSize(p) ==
    IF p.shape = "circle" THEN p.y2
    ELSE IF p.y2 >= p.x2 THEN p.y2 - p.x2 ELSE p.x2 - p.y2

\* C19 (as claimed): a major line tick has length tick_size and a minor
\* one half of it; a major dot has radius tick_size/2 and a minor dot half
\* of that, tick_size/4.
C19_TickSizing ==
    panel # None =>
    \A o \in Scaled :
        LET s == ElemAt(Tree, o).scale[1]
        IN \A i \in Tagged(o, {"tick"}) :
              TickSize(dwg[i]) =
                 CASE dwg[i].shape = "line" /\ dwg[i].major -> s.tick_size
                   [] dwg[i].shape = "line" /\ ~dwg[i].major -> s.tick_size \div 2
                   [] dwg[i].shape = "circle" /\ dwg[i].major -> s.tick_size \div 2
                   [] dwg[i].shape = "circle" /\ ~dwg[i].major -> s.tick_size \div 4

\* a rotary switch read as a potentiometer whose border_diameter is the
\* switch's knob_diameter
AsPotentiometer(switch) ==
    [scale |-> switch.scale, border_diameter |-> switch.knob_diameter,
     knob_diameter |-> switch.knob_diameter,
     angle_start |-> switch.angle_start, angle_width |-> switch.angle_width]

\* C20 (as claimed): the ticks of a rendered rotary switch with a scale are
\* the ticks a potentiometer with border_diameter = the switch's
\* knob_diameter, the same scale and the same angles has: same number,
\* same angles, same radial start and end for each scale position.
C20_RotaryAsPotentiometer ==
    panel # None =>
    \A o \in Scaled \cap CalledOf("Switch") :
        LET sw == ElemAt(Tree, o)
            a == PathSum(Tree, o)
            ticks == pot_ticks(AsPotentiometer(sw), a.x, a.y, o)
        IN {dwg[i] : i \in Tagged(o, {"tick"})}
              = {ticks[n] : n \in DOMAIN ticks}

----------------------------------------------------------------------------
(* Component labels *)

\* the rendered components that have a main label with text
Labelled ==
    {o \in {calls[n] : n \in DOMAIN calls} :
        LET e == ElemAt(Tree, o)
        IN e.cls # "Group" /\ e.label # None /\ e.label[1].text # ""}

Sides == {"top", "bottom", "left", "right", "center"}
PlaceModes == {"outside", "inside", "inline"}

\* a position descriptor that is not "{side}" or "{side}-{mode}"
Malformed(pos) ==
    \/ pos[1] \notin Sides
    \/ Len(pos) > 2
    \/ Len(pos) = 2 /\ pos[2] \notin PlaceModes

\* the default label distance of each component type, as specified: the
\* potentiometer's is max(border radius, knob radius) + (tick_size + 2 with
\* a scale) + 2
ClaimedPotDist(pot) ==
    Max(Half(pot.border_diameter), Half(pot.knob_diameter))
    + (IF pot.scale # None THEN pot.scale[1].tick_size + mm(2) ELSE 0)
    + mm(2)

ClaimedDefaultDist(e) ==
    CASE e.cls = "Potentiometer" -> ClaimedPotDist(e)
      [] e.cls = "Socket" -> e.radius + mm(5)
      [] e.cls = "Switch" -> switch_default_dist(e)

\* a text primitive tagged tag of the element at o, at (x, y), centred
TextAt(o, tag, x, y) ==
    \E i \in Tagged(o, {tag}) :
        dwg[i].x1 = x /\ dwg[i].y1 = y /\ dwg[i].anchor = "middle"

\* C21 (as claimed): the main label of a rendered component whose position
\* descriptor is absent or malformed is drawn as bottom-outside: at x =
\* ref_x, baseline y = ref_y + distance + 0.7 x font_size, anchor middle.
C21_MalformedIsBottomOutside ==
    panel # None =>
    \A o \in Labelled :
        LET e == ElemAt(Tree, o)
            a == PathSum(Tree, o)
            pos == e.label[1].position
            font_size == get_font_size_mm(get_element_font(e))
        IN (pos = None \/ Malformed(pos)) =>
              TextAt(o, "label", a.x,
                     a.y + ClaimedDefaultDist(e) + Times07(font_size))

\* the distance a label mapping of the input gives, None when it gives none
GivenDistance(l) == IF l.kind = "dict" THEN Norm(l.distance) ELSE None

\* C22 (as claimed): a distance given in a label mapping is an attribute of
\* the built Label and is the distance at which the label is drawn; without
\* one the label is drawn at the default distance of its component type.
\* So for the main label of a component (drawn on the top or the bottom
\* side) and for each of the top, bottom and center labels of a toggle
\* switch.
C22_ExplicitDistance ==
    panel # None =>
    /\ \A o \in Labelled :
          LET e == ElemAt(Tree, o)
              in == ElemAt(input.elements, o)
              a == PathSum(Tree, o)
              given == GivenDistance(in.label)
              dist == Get(given, ClaimedDefaultDist(e))
              side == parse_position(e.label[1].position).side
              font_size == get_font_size_mm(get_element_font(e))
          IN /\ HasAttr(e.label[1], "distance")
             /\ e.label[1].distance = given
             /\ side = "top" => TextAt(o, "label", a.x, a.y - dist)
             /\ side = "bottom" =>
                   TextAt(o, "label", a.x, a.y + dist + Times07(font_size))
    /\ \A o \in CalledOf("Switch") :
          LET e == ElemAt(Tree, o)
              in == ElemAt(input.elements, o)
              a == PathSum(Tree, o)
              font_size == get_font_size_mm(get_element_font(e))
              vdist(l) == Get(GivenDistance(l), Half(e.height) + mm(5))
              hdist(l) == Get(GivenDistance(l), Half(e.width) + mm(8))
          IN e.switch_type = "toggle" =>
                /\ e.label_top # None =>
                      /\ HasAttr(e.label_top[1], "distance")
                      /\ TextAt(o, "label_top", a.x,
                                a.y - vdist(in.label_top))
                /\ e.label_bottom # None =>
                      /\ HasAttr(e.label_bottom[1], "distance")
                      /\ TextAt(o, "label_bottom", a.x,
                                a.y + vdist(in.label_bottom)
                                + Times07(font_size))
                /\ e.label_center # None =>
                      /\ HasAttr(e.label_center[1], "distance")
                      /\ TextAt(o, "label_center",
                                a.x + hdist(in.label_center),
                                a.y + Times035(font_size))

\* C23 (as claimed): the default label distance of a rendered potentiometer
\* is max(border_diameter/2, knob_diameter/2) + (tick_size + 2 with a
\* scale, else 0) + 2, whatever the border, the knob and the scale; a main
\* label without a position and without a distance of its own is drawn
\* that far below the centre.
C23_PotDefaultDistance ==
    panel # None =>
    \A o \in CalledOf("Potentiometer") :
        LET pot == ElemAt(Tree, o)
            a == PathSum(Tree, o)
            font_size == get_font_size_mm(get_element_font(pot))
        IN /\ pot_default_dist(pot) = ClaimedPotDist(pot)
           /\ (/\ o \in Labelled
               /\ pot.label[1].position = None
               /\ GivenDistance(ElemAt(input.elements, o).label) = None)
              => TextAt(o, "label", a.x,
                        a.y + ClaimedPotDist(pot) + Times07(font_size))

\* the per-tick label list the input gives a switch: its `scale_labels`,
\* else the `labels` of its scale block, else none
GivenTickLabels(in) ==
    IF in.scale_labels # None THEN in.scale_labels[1]
    ELSE Get(in.scale.labels, <<>>)

\* C24 (as claimed): a rendered rotary switch whose scale has n ticks and
\* whose input gives a list of m tick labels has exactly min(n, m) tick
\* labels, one for each index below min(n, m), label j at the angle of
\* tick j; a tick of index >= m has no label.
C24_TickLabels ==
    panel # None =>
    \A o \in Scaled \cap CalledOf("Switch") :
        LET n == ElemAt(Tree, o).scale[1].num_ticks
            m == Len(GivenTickLabels(ElemAt(input.elements, o)))
            labels == Tagged(o, {"tick_label"})
        IN /\ Cardinality(labels) = Min(n, m)
           /\ {dwg[i].idx : i \in labels} = 0 .. (Min(n, m) - 1)
           /\ \A i \in labels :
                 \E t \in Tagged(o, {"tick"}) :
                    dwg[t].idx = dwg[i].idx /\ dwg[t].ang = dwg[i].ang

====
